---- MODULE Spec2Model ----
(***************************************************************************)
(* A model of the diagnostic reasoning engine of gestor-dga: the six       *)
(* normative classifiers, the consensus engine, dataset preparation, the   *)
(* model trainer and evaluator, the AI service with its classifier cache   *)
(* and persisted artifact, and the unified reconciliation service.         *)
(*                                                                         *)
(* Gas concentrations are integer ppm values.  A ratio or a percentage is  *)
(* kept exact as a pair <<numerator, denominator>> and compared with a     *)
(* threshold by cross-multiplication.  Agreement percentages (one decimal) *)
(* are kept in tenths of a percent, Duval percentages (two decimals) in    *)
(* hundredths, cross-validation accuracies in units of 1e-4.               *)
(***************************************************************************)
EXTENDS Integers, Sequences, FiniteSets, TLC

VARIABLES classifier, artifact, n_folds, out

vars == <<classifier, artifact, n_folds, out>>

-----------------------------------------------------------------------------
(* Fault taxonomy                                                          *)

FaultType == <<"N", "PD", "D1", "D2", "T1", "T2", "T3", "DT", "S">>

FaultNames == {FaultType[i] : i \in 1..Len(FaultType)}

FAULT_LABELS == FaultType

FAULT_TO_INDEX == [name \in FaultNames |->
                     CHOOSE i \in 0..(Len(FAULT_LABELS) - 1) : FAULT_LABELS[i + 1] = name]

\* variant: the decoding table is built over the enumeration in reverse
INDEX_TO_FAULT_reversed ==
    [i \in 0..(Len(FaultType) - 1) |-> FaultType[Len(FaultType) - i]]

INDEX_TO_FAULT == [i \in 0..(Len(FaultType) - 1) |-> FaultType[i + 1]]

-----------------------------------------------------------------------------
(* Gas readings                                                            *)

field_names == <<"h2", "ch4", "c2h6", "c2h4", "c2h2", "co", "co2", "o2", "n2">>

GasReading(h2, ch4, c2h6, c2h4, c2h2, co, co2, o2, n2) ==
    [h2 |-> h2, ch4 |-> ch4, c2h6 |-> c2h6, c2h4 |-> c2h4, c2h2 |-> c2h2,
     co |-> co, co2 |-> co2, o2 |-> o2, n2 |-> n2]

\* A value handed to the constructor: a number, the float NaN (a float that
\* compares False with everything), or an object that is not a number.
Num(n) == [kind |-> "num", val |-> n]

NaN == [kind |-> "nan"]

NotANumber == [kind |-> "str"]

\* isinstance(value, (int, float))
is_numeric(value) == value.kind \in {"num", "nan"}

\* value < 0
is_negative(value) == value.kind = "num" /\ value.val < 0

\* GasReading.__post_init__ from field i on: the first failure, if any
RECURSIVE post_init_from(_, _)
post_init_from(values, i) ==
    IF i > Len(field_names) THEN [status |-> "ok"]
    ELSE IF ~is_numeric(values[i])
    THEN [status |-> "InvalidGasValueError", gas |-> field_names[i], message |-> "numerico"]
    ELSE IF is_negative(values[i])
    THEN [status |-> "InvalidGasValueError", gas |-> field_names[i], message |-> "negativo"]
    ELSE post_init_from(values, i + 1)

\* GasReading(*values): the reading, or the error raised by __post_init__
new_GasReading(values) ==
    LET checked == post_init_from(values, 1)
    IN IF checked.status = "ok"
       THEN [status |-> "ok",
             reading |-> GasReading(values[1], values[2], values[3], values[4],
                                    values[5], values[6], values[7], values[8],
                                    values[9])]
       ELSE checked

-----------------------------------------------------------------------------
(* Ratio and percentage utilities.  A value is <<num, den>> with den > 0.  *)

\* variant: only a denominator equal to zero is protected
safe_ratio_zero_only(numerator, denominator) ==
    IF denominator = 0
    THEN (IF numerator > 0 THEN <<999, 1>> ELSE <<0, 1>>)
    ELSE <<numerator, denominator>>

safe_ratio(numerator, denominator) ==
    IF denominator <= 0
    THEN (IF numerator > 0 THEN <<999, 1>> ELSE <<0, 1>>)
    ELSE <<numerator, denominator>>

\* v > t/10, v < t/10, v <= t/10 for a threshold given in tenths
GT(v, tenths) == v[1] * 10 > tenths * v[2]
LT(v, tenths) == v[1] * 10 < tenths * v[2]
LE(v, tenths) == v[1] * 10 <= tenths * v[2]

ratio_ch4_h2(reading) == safe_ratio(reading.ch4, reading.h2)
ratio_c2h2_c2h4(reading) == safe_ratio(reading.c2h2, reading.c2h4)
ratio_c2h4_c2h6(reading) == safe_ratio(reading.c2h4, reading.c2h6)
ratio_c2h6_c2h2(reading) == safe_ratio(reading.c2h6, reading.c2h2)
ratio_c2h2_ch4(reading) == safe_ratio(reading.c2h2, reading.ch4)

total_combustible_gases(reading) ==
    reading.h2 + reading.ch4 + reading.c2h6
    + reading.c2h4 + reading.c2h2 + reading.co

duval_triangle_percentages(reading) ==
    LET total == reading.ch4 + reading.c2h4 + reading.c2h2
    IN IF total <= 0
       THEN <<(<<0, 1>>), (<<0, 1>>), (<<0, 1>>)>>
       ELSE <<(<<reading.ch4 * 100, total>>),
              (<<reading.c2h4 * 100, total>>),
              (<<reading.c2h2 * 100, total>>)>>

duval_pentagon_percentages(reading) ==
    LET total == reading.h2 + reading.ch4 + reading.c2h6 + reading.c2h4 + reading.c2h2
    IN IF total <= 0
       THEN <<(<<0, 1>>), (<<0, 1>>), (<<0, 1>>), (<<0, 1>>), (<<0, 1>>)>>
       ELSE <<(<<reading.h2 * 100, total>>),
              (<<reading.ch4 * 100, total>>),
              (<<reading.c2h6 * 100, total>>),
              (<<reading.c2h4 * 100, total>>),
              (<<reading.c2h2 * 100, total>>)>>

\* Python round(a / b, 0) on a non-negative exact quotient: half to even
RoundDiv(a, b) ==
    LET q == a \div b
        r == a % b
    IN IF 2 * r < b THEN q
       ELSE IF 2 * r > b THEN q + 1
       ELSE IF q % 2 = 0 THEN q ELSE q + 1

\* a function as an explicit table, so that it is computed once
Tabulate(f) == f @@ <<>>

MethodResult(method_name, fault_type, details) ==
    [method_name |-> method_name, fault_type |-> fault_type, details |-> details]

-----------------------------------------------------------------------------
(* IEEE C57.104-2019                                                       *)

GAS_LIMITS ==
    [h2   |-> <<100, 200, 500>>,
     ch4  |-> <<75, 125, 200>>,
     c2h6 |-> <<65, 100, 150>>,
     c2h4 |-> <<50, 100, 200>>,
     c2h2 |-> <<2, 10, 35>>,
     co   |-> <<350, 570, 1400>>,
     co2  |-> <<2500, 4000, 10000>>]

TDCG_LIMITS == <<720, 1920, 4630>>

gas_condition(gas_name, value) ==
    LET limits == GAS_LIMITS[gas_name]
    IN IF value <= limits[1] THEN 1
       ELSE IF value <= limits[2] THEN 2
       ELSE IF value <= limits[3] THEN 3
       ELSE 4

tdcg_condition(tdcg) ==
    IF tdcg <= TDCG_LIMITS[1] THEN 1
    ELSE IF tdcg <= TDCG_LIMITS[2] THEN 2
    ELSE IF tdcg <= TDCG_LIMITS[3] THEN 3
    ELSE 4

suggest_fault_type(reading) ==
    LET r1 == ratio_ch4_h2(reading)
        r2 == ratio_c2h2_c2h4(reading)
        r3 == ratio_c2h4_c2h6(reading)
    IN IF reading.c2h2 > 10
       THEN (IF GT(r2, 20) THEN "D1" ELSE "D2")
       ELSE IF GT(r3, 40) THEN "T3"
       ELSE IF GT(r3, 10) THEN "T2"
       ELSE IF GT(r1, 10) /\ LE(r3, 10) THEN "T1"
       ELSE IF reading.h2 > 100 /\ LT(r1, 1) THEN "PD"
       ELSE "S"

Max(S) == CHOOSE m \in S : \A x \in S : x <= m

Min(S) == CHOOSE m \in S : \A x \in S : m <= x

ieee_individual_conditions(reading) ==
    [gas \in DOMAIN GAS_LIMITS |-> gas_condition(gas, reading[gas])]

ieee_overall_condition(reading) ==
    LET individual_conditions == ieee_individual_conditions(reading)
        tdcg_cond == tdcg_condition(total_combustible_gases(reading))
    IN Max({individual_conditions[g] : g \in DOMAIN GAS_LIMITS} \cup {tdcg_cond})

\* variant: only condition 1 counts as normal
ieee_diagnose_normal_only_at_1(reading) ==
    LET overall == ieee_overall_condition(reading)
        fault == IF overall <= 1 THEN "N" ELSE suggest_fault_type(reading)
        tdcg == total_combustible_gases(reading)
    IN MethodResult("IEEE C57.104-2019", fault,
                    [overall_condition |-> overall,
                     tdcg_ppm |-> tdcg,
                     tdcg_condition |-> tdcg_condition(tdcg),
                     individual_conditions |-> ieee_individual_conditions(reading)])

ieee_diagnose(reading) ==
    LET overall == ieee_overall_condition(reading)
        fault == IF overall <= 2 THEN "N" ELSE suggest_fault_type(reading)
        tdcg == total_combustible_gases(reading)
    IN MethodResult("IEEE C57.104-2019", fault,
                    [overall_condition |-> overall,
                     tdcg_ppm |-> tdcg,
                     tdcg_condition |-> tdcg_condition(tdcg),
                     individual_conditions |-> ieee_individual_conditions(reading)])

-----------------------------------------------------------------------------
(* IEC 60599:2022                                                          *)

iec_code_r1(ratio) == IF LT(ratio, 1) THEN 0 ELSE IF LE(ratio, 10) THEN 1 ELSE 2

iec_code_r2(ratio) == IF LT(ratio, 1) THEN 0 ELSE IF LE(ratio, 10) THEN 1 ELSE 2

iec_code_r5(ratio) == IF LT(ratio, 10) THEN 0 ELSE IF LE(ratio, 30) THEN 1 ELSE 2

\* the decision table as a function on the triples it maps; others are absent
IEC_DIAGNOSIS_TABLE ==
    [key \in {<<c1, c2, c5>> : c1 \in 0..2, c2 \in 0..2, c5 \in 0..2}
              \ {<<0, 0, 1>>, <<0, 0, 2>>} |->
        IF key = <<0, 0, 0>> THEN "PD"
        ELSE IF key \in {<<1, 0, 0>>, <<2, 0, 0>>} THEN "D1"
        ELSE IF key \in {<<1, 0, 1>>, <<1, 0, 2>>, <<2, 0, 1>>, <<2, 0, 2>>} THEN "D2"
        ELSE IF key \in {<<0, 1, 0>>, <<0, 2, 0>>} THEN "T1"
        ELSE IF key \in {<<0, 2, 1>>, <<0, 1, 1>>} THEN "T2"
        ELSE IF key \in {<<0, 2, 2>>, <<0, 1, 2>>} THEN "T3"
        ELSE "DT"]

\* variant: the first two ratios are taken in the order Rogers uses
iec_diagnose_rogers_order(reading) ==
    LET c1 == iec_code_r1(ratio_ch4_h2(reading))
        c2 == iec_code_r2(ratio_c2h2_c2h4(reading))
        c5 == iec_code_r5(ratio_c2h4_c2h6(reading))
        key == <<c1, c2, c5>>
    IN MethodResult("IEC 60599:2022",
                    IF key \in DOMAIN IEC_DIAGNOSIS_TABLE
                    THEN IEC_DIAGNOSIS_TABLE[key] ELSE "N",
                    [code_R1 |-> c1, code_R2 |-> c2, code_R5 |-> c5, pattern |-> key])

iec_diagnose(reading) ==
    LET c1 == iec_code_r1(ratio_c2h2_c2h4(reading))
        c2 == iec_code_r2(ratio_ch4_h2(reading))
        c5 == iec_code_r5(ratio_c2h4_c2h6(reading))
        key == <<c1, c2, c5>>
    IN MethodResult("IEC 60599:2022",
                    IF key \in DOMAIN IEC_DIAGNOSIS_TABLE
                    THEN IEC_DIAGNOSIS_TABLE[key] ELSE "N",
                    [code_R1 |-> c1, code_R2 |-> c2, code_R5 |-> c5, pattern |-> key])

-----------------------------------------------------------------------------
(* Rogers                                                                  *)

rogers_code_r1(ratio) ==
    IF LT(ratio, 1) THEN 5
    ELSE IF LE(ratio, 10) THEN 0
    ELSE IF LE(ratio, 30) THEN 1
    ELSE 2

rogers_code_r2(ratio) == IF LT(ratio, 1) THEN 0 ELSE IF LE(ratio, 30) THEN 1 ELSE 2

rogers_code_r5(ratio) == IF LT(ratio, 10) THEN 0 ELSE IF LE(ratio, 30) THEN 1 ELSE 2

ROGERS_DIAGNOSIS_TABLE ==
    [key \in {<<0, 0, 0>>, <<5, 0, 0>>, <<0, 1, 0>>, <<1, 1, 0>>,
              <<0, 2, 0>>, <<0, 1, 1>>, <<0, 1, 2>>, <<0, 2, 1>>, <<0, 2, 2>>,
              <<1, 0, 0>>, <<2, 0, 0>>, <<2, 0, 1>>, <<1, 0, 1>>,
              <<2, 0, 2>>, <<1, 0, 2>>} |->
        IF key = <<0, 0, 0>> THEN "N"
        ELSE IF key = <<5, 0, 0>> THEN "PD"
        ELSE IF key \in {<<0, 1, 0>>, <<1, 1, 0>>} THEN "D1"
        ELSE IF key \in {<<0, 2, 0>>, <<0, 1, 1>>, <<0, 1, 2>>, <<0, 2, 1>>, <<0, 2, 2>>} THEN "D2"
        ELSE IF key \in {<<1, 0, 0>>, <<2, 0, 0>>} THEN "T1"
        ELSE IF key \in {<<2, 0, 1>>, <<1, 0, 1>>} THEN "T2"
        ELSE "T3"]

rogers_diagnose(reading) ==
    LET c1 == rogers_code_r1(ratio_ch4_h2(reading))
        c2 == rogers_code_r2(ratio_c2h2_c2h4(reading))
        c5 == rogers_code_r5(ratio_c2h4_c2h6(reading))
        key == <<c1, c2, c5>>
    IN MethodResult("Rogers",
                    IF key \in DOMAIN ROGERS_DIAGNOSIS_TABLE
                    THEN ROGERS_DIAGNOSIS_TABLE[key] ELSE "N",
                    [code_R1 |-> c1, code_R2 |-> c2, code_R5 |-> c5, pattern |-> key])

-----------------------------------------------------------------------------
(* Dornenburg                                                              *)

L1_LIMITS ==
    [h2 |-> 100, ch4 |-> 120, c2h2 |-> 1, c2h4 |-> 50, c2h6 |-> 65, co |-> 350]

\* variant: a gas at its limit already counts as exceeding it
exceeds_l1_inclusive(reading) ==
    \E gas \in DOMAIN L1_LIMITS : reading[gas] >= L1_LIMITS[gas]

\* variant: every key gas has to exceed its limit
exceeds_l1_every_gas(reading) ==
    \A gas \in DOMAIN L1_LIMITS : reading[gas] > L1_LIMITS[gas]

exceeds_l1(reading) == \E gas \in DOMAIN L1_LIMITS : reading[gas] > L1_LIMITS[gas]

dornenburg_classify(r1, r2, r3, r4) ==
    IF GT(r1, 10) /\ LT(r2, 1)
    THEN (IF GT(r4, 4) THEN "T2" ELSE "T1")
    ELSE IF LT(r1, 1) /\ LT(r2, 1) THEN "PD"
    ELSE IF GT(r2, 1) /\ GT(r3, 3) THEN "D2"
    ELSE IF GT(r2, 1) THEN "D1"
    ELSE IF GT(r1, 10) THEN "T1"
    ELSE "N"

dornenburg_diagnose(reading) ==
    IF ~exceeds_l1(reading)
    THEN MethodResult("Dornenburg", "N", [applicable |-> FALSE, l1_limits |-> L1_LIMITS])
    ELSE MethodResult("Dornenburg",
                      dornenburg_classify(ratio_ch4_h2(reading),
                                          ratio_c2h2_c2h4(reading),
                                          ratio_c2h2_ch4(reading),
                                          ratio_c2h6_c2h2(reading)),
                      [applicable |-> TRUE])

-----------------------------------------------------------------------------
(* Duval Triangle 1 and Duval Pentagon 1.  Percent thresholds are whole    *)
(* percents, so they are passed to GT/LT/LE as tenths.                     *)

triangle_classify_zone(pct_ch4, pct_c2h4, pct_c2h2) ==
    IF GT(pct_c2h2, 130)
    THEN (IF LT(pct_c2h4, 230) THEN "D1" ELSE "D2")
    ELSE IF LE(pct_c2h2, 40)
    THEN (IF LT(pct_c2h4, 200)
          THEN (IF GT(pct_ch4, 980) THEN "PD" ELSE "T1")
          ELSE IF LT(pct_c2h4, 500) THEN "T2"
          ELSE "T3")
    ELSE IF LT(pct_c2h4, 230) THEN "D1"
    ELSE "DT"

IsZero(v) == v[1] = 0

\* variant: one zero percentage is enough to call the triangle not applicable
triangle_diagnose_any_zero(reading) ==
    LET p == duval_triangle_percentages(reading)
    IN IF IsZero(p[1]) \/ IsZero(p[2]) \/ IsZero(p[3])
       THEN MethodResult("Triangulo de Duval 1", "N",
                         [applicable |-> FALSE, pct |-> <<0, 0, 0>>])
       ELSE MethodResult("Triangulo de Duval 1",
                         triangle_classify_zone(p[1], p[2], p[3]),
                         [applicable |-> TRUE,
                          pct |-> [i \in 1..3 |-> RoundDiv(p[i][1] * 100, p[i][2])]])

triangle_diagnose(reading) ==
    LET p == duval_triangle_percentages(reading)
    IN IF IsZero(p[1]) /\ IsZero(p[2]) /\ IsZero(p[3])
       THEN MethodResult("Triangulo de Duval 1", "N",
                         [applicable |-> FALSE, pct |-> <<0, 0, 0>>])
       ELSE MethodResult("Triangulo de Duval 1",
                         triangle_classify_zone(p[1], p[2], p[3]),
                         [applicable |-> TRUE,
                          pct |-> [i \in 1..3 |-> RoundDiv(p[i][1] * 100, p[i][2])]])

pentagon_classify_zone(pct_h2, pct_ch4, pct_c2h6, pct_c2h4, pct_c2h2) ==
    IF GT(pct_h2, 600) /\ LT(pct_c2h2, 50) /\ LT(pct_c2h4, 100) THEN "PD"
    ELSE IF GT(pct_c2h2, 150)
    THEN (IF GT(pct_c2h4, 250) THEN "D2" ELSE "D1")
    ELSE IF GT(pct_c2h2, 50)
    THEN (IF GT(pct_c2h4, 300) THEN "D2"
          ELSE IF GT(pct_h2, 300) THEN "D1"
          ELSE "DT")
    ELSE IF GT(pct_c2h4, 500) THEN "T3"
    ELSE IF GT(pct_c2h4, 250)
    THEN (IF GT(pct_c2h6, 200) THEN "T2" ELSE "T3")
    ELSE IF GT(pct_c2h4, 100)
    THEN (IF GT(pct_c2h6, 300) THEN "S" ELSE "T2")
    ELSE IF GT(pct_ch4, 400)
    THEN (IF GT(pct_c2h6, 200) THEN "S" ELSE "T1")
    ELSE IF GT(pct_c2h6, 400) THEN "S"
    ELSE IF GT(pct_h2, 400) THEN "PD"
    ELSE "T1"

pentagon_diagnose(reading) ==
    LET p == duval_pentagon_percentages(reading)
    IN IF IsZero(p[1]) /\ IsZero(p[2]) /\ IsZero(p[3])
       THEN MethodResult("Pentagono de Duval 1", "N",
                         [applicable |-> FALSE, pct |-> <<0, 0, 0, 0, 0>>])
       ELSE MethodResult("Pentagono de Duval 1",
                         pentagon_classify_zone(p[1], p[2], p[3], p[4], p[5]),
                         [applicable |-> TRUE,
                          pct |-> [i \in 1..5 |-> RoundDiv(p[i][1] * 100, p[i][2])]])

-----------------------------------------------------------------------------
(* Consensus engine                                                        *)

METHODS == <<"ieee_c57_104", "iec_60599", "rogers",
             "dornenburg", "duval_triangle", "duval_pentagon">>

CallMethod(method, reading) ==
    CASE method = "ieee_c57_104" -> ieee_diagnose(reading)
      [] method = "iec_60599" -> iec_diagnose(reading)
      [] method = "rogers" -> rogers_diagnose(reading)
      [] method = "dornenburg" -> dornenburg_diagnose(reading)
      [] method = "duval_triangle" -> triangle_diagnose(reading)
      [] method = "duval_pentagon" -> pentagon_diagnose(reading)

\* collections.Counter(votes): the distinct votes in first-seen order ...
RECURSIVE CounterKeys(_)
CounterKeys(votes) ==
    IF votes = <<>> THEN <<>>
    ELSE LET front == CounterKeys(SubSeq(votes, 1, Len(votes) - 1))
             last == votes[Len(votes)]
         IN IF \E i \in 1..Len(front) : front[i] = last
            THEN front ELSE Append(front, last)

\* ... and the number of occurrences of each
CounterCount(votes, key) == Cardinality({i \in 1..Len(votes) : votes[i] = key})

\* Counter.most_common(1)[0]: max() over the items in insertion order keeps
\* the first item whose count is maximal
\* mutation: a later item with an equal count replaces the current best
RECURSIVE MaxByCount_last_wins(_, _, _)
MaxByCount_last_wins(keys, votes, best) ==
    IF keys = <<>> THEN best
    ELSE MaxByCount_last_wins(Tail(keys), votes,
                              IF CounterCount(votes, Head(keys)) >= CounterCount(votes, best)
                              THEN Head(keys) ELSE best)

RECURSIVE MaxByCount(_, _, _)
MaxByCount(keys, votes, best) ==
    IF keys = <<>> THEN best
    ELSE MaxByCount(Tail(keys), votes,
                    IF CounterCount(votes, Head(keys)) > CounterCount(votes, best)
                    THEN Head(keys) ELSE best)

most_common(votes) ==
    LET keys == CounterKeys(votes)
    IN MaxByCount(Tail(keys), votes, Head(keys))

\* mutation: the agreement is truncated instead of rounded
compute_consensus_truncating(results) ==
    LET votes == [i \in 1..Len(results) |-> results[i].fault_type]
        keys == CounterKeys(votes)
        total == Len(votes)
        most_common_fault == most_common(votes)
        most_common_count == CounterCount(votes, most_common_fault)
        vote_dict == [ft \in {keys[i] : i \in 1..Len(keys)} |-> CounterCount(votes, ft)]
        agreement == IF total > 0 THEN (most_common_count * 1000) \div total ELSE 0
    IN <<most_common_fault, vote_dict, agreement>>

compute_consensus(results) ==
    LET votes == [i \in 1..Len(results) |-> results[i].fault_type]
        keys == CounterKeys(votes)
        total == Len(votes)
        most_common_fault == most_common(votes)
        most_common_count == CounterCount(votes, most_common_fault)
        vote_dict == [ft \in {keys[i] : i \in 1..Len(keys)} |-> CounterCount(votes, ft)]
        agreement == IF total > 0 THEN RoundDiv(most_common_count * 1000, total) ELSE 0
    IN <<most_common_fault, vote_dict, agreement>>

diagnose_all(reading) ==
    LET results == [i \in 1..Len(METHODS) |-> CallMethod(METHODS[i], reading)]
        c == compute_consensus(results)
    IN [results |-> results,
        consensus_fault |-> c[1],
        vote_counts |-> c[2],
        agreement_pct |-> c[3]]

\* str as the sequence of its characters; str.lower() maps each cased
\* character to its lowercase form and leaves every other character alone
ascii_uppercase == <<"A", "B", "C", "D", "E", "F", "G", "H", "I", "J", "K", "L", "M", "N",
                    "O", "P", "Q", "R", "S", "T", "U", "V", "W", "X", "Y", "Z">>

ascii_lowercase == <<"a", "b", "c", "d", "e", "f", "g", "h", "i", "j", "k", "l", "m", "n",
                    "o", "p", "q", "r", "s", "t", "u", "v", "w", "x", "y", "z">>

other_characters == <<" ", ".", "-", ":", "0", "1", "2", "3", "4", "5", "6", "7", "8", "9">>

Characters ==
    {ascii_uppercase[i] : i \in 1..Len(ascii_uppercase)}
    \cup {ascii_lowercase[i] : i \in 1..Len(ascii_lowercase)}
    \cup {other_characters[i] : i \in 1..Len(other_characters)}

lower_char ==
    Tabulate([c \in Characters |->
        IF \E i \in 1..Len(ascii_uppercase) : ascii_uppercase[i] = c
        THEN ascii_lowercase[CHOOSE i \in 1..Len(ascii_uppercase) : ascii_uppercase[i] = c]
        ELSE c])

upper_char ==
    Tabulate([c \in Characters |->
        IF \E i \in 1..Len(ascii_lowercase) : ascii_lowercase[i] = c
        THEN ascii_uppercase[CHOOSE i \in 1..Len(ascii_lowercase) : ascii_lowercase[i] = c]
        ELSE c])

\* variant: a comparison that leaves the case of the characters as it is
lower_unchanged(s) == s

lower(s) == [i \in 1..Len(s) |-> lower_char[s[i]]]

upper(s) == [i \in 1..Len(s) |-> upper_char[s[i]]]

\* the characters of each METHOD_NAME
Chars ==
    Tabulate(
        ("IEEE C57.104-2019" :> <<"I", "E", "E", "E", " ", "C", "5", "7", ".", "1", "0", "4", "-", "2", "0", "1", "9">>) @@
        ("IEC 60599:2022" :> <<"I", "E", "C", " ", "6", "0", "5", "9", "9", ":", "2", "0", "2", "2">>) @@
        ("Rogers" :> <<"R", "o", "g", "e", "r", "s">>) @@
        ("Dornenburg" :> <<"D", "o", "r", "n", "e", "n", "b", "u", "r", "g">>) @@
        ("Triangulo de Duval 1" :> <<"T", "r", "i", "a", "n", "g", "u", "l", "o", " ", "d", "e", " ", "D", "u", "v", "a", "l", " ", "1">>) @@
        ("Pentagono de Duval 1" :> <<"P", "e", "n", "t", "a", "g", "o", "n", "o", " ", "d", "e", " ", "D", "u", "v", "a", "l", " ", "1">>))

\* diagnose_single returns a MethodResult or None
NoResult == [found |-> FALSE]

RECURSIVE diagnose_single_from(_, _, _)
diagnose_single_from(reading, method_name, i) ==
    IF i > Len(METHODS) THEN NoResult
    ELSE LET result == CallMethod(METHODS[i], reading)
         IN IF lower(Chars[result.method_name]) = lower(method_name)
            THEN [found |-> TRUE, result |-> result]
            ELSE diagnose_single_from(reading, method_name, i + 1)

diagnose_single(reading, method_name) == diagnose_single_from(reading, method_name, 1)

available_methods ==
    <<"IEEE C57.104-2019", "IEC 60599:2022", "Rogers", "Dornenburg",
      "Triangulo de Duval 1", "Pentagono de Duval 1">>

-----------------------------------------------------------------------------
(* Inputs: the readings the classifiers are run on                         *)

H2Levels == {0, 15, 150, 1500}
CH4Levels == {0, 5, 100, 200}
C2H6Levels == {0, 3, 60, 150}
C2H4Levels == {0, 2, 60, 400}
C2H2Levels == {0, 1, 15, 500}
COLevels == {200, 600}
CO2Levels == {1500, 5000}

Readings ==
    {GasReading(h2, ch4, c2h6, c2h4, c2h2, co, co2, 20000, 55000) :
        h2 \in H2Levels, ch4 \in CH4Levels, c2h6 \in C2H6Levels,
        c2h4 \in C2H4Levels, c2h2 \in C2H2Levels, co \in COLevels, co2 \in CO2Levels}

NoModel == [loaded |-> FALSE]

DEFAULT_N_FOLDS == 5

-----------------------------------------------------------------------------
(* Model trainer and evaluator.  A label vector y is a sequence of fault   *)
(* ordinals.  What scikit-learn returns is an input of the model: for each *)
(* candidate either its mean cross-validation accuracy (already rounded to *)
(* four decimals, in units of 1e-4) or Raise when the library call fails.  *)

Raise == [raised |-> TRUE]

Score(accuracy) == [raised |-> FALSE, accuracy |-> accuracy]

build_pipelines == <<"Random Forest", "SVM", "KNN", "MLP">>

unique(y) == {y[i] : i \in 1..Len(y)}

bincount(y, c) == Cardinality({i \in 1..Len(y) : y[i] = c})

\* list.sort(key=cv_accuracy, reverse=True): stable, descending
RECURSIVE InsertDesc(_, _)
InsertDesc(sorted, m) ==
    IF sorted = <<>> THEN <<m>>
    ELSE IF Head(sorted).cv_accuracy >= m.cv_accuracy
         THEN <<Head(sorted)>> \o InsertDesc(Tail(sorted), m)
         ELSE <<m>> \o sorted

\* variant: the trained list is returned in training order, without the sort
sort_by_accuracy_unsorted(models) == models

RECURSIVE sort_by_accuracy(_)
sort_by_accuracy(models) ==
    IF models = <<>> THEN <<>>
    ELSE InsertDesc(sort_by_accuracy(SubSeq(models, 1, Len(models) - 1)),
                    models[Len(models)])

trainer_effective_folds(folds, y) ==
    LET min_class_count == Min({bincount(y, c) : c \in unique(y)})
        effective_folds == Min({folds, min_class_count})
    IN IF effective_folds < 2 THEN 2 ELSE effective_folds

\* the loop over the candidates: the library calls made, in order, up to and
\* including the first one that raises
RECURSIVE TrainLog(_, _)
TrainLog(cv, i) ==
    IF i > Len(build_pipelines) THEN <<>>
    ELSE IF cv[i] = Raise THEN << <<"cross_val_score", build_pipelines[i]>> >>
    ELSE << <<"cross_val_score", build_pipelines[i]>>, <<"fit", build_pipelines[i]>> >>
         \o TrainLog(cv, i + 1)

\* variant: the class-count validation comes before the sizing validation
train_all_class_first(folds, y, cv) ==
    LET n_samples == Len(y)
        n_classes == Cardinality(unique(y))
    IN IF n_classes < 2
       THEN [status |-> "class_count_error", calls |-> <<>>]
       ELSE IF n_samples < folds
       THEN [status |-> "sizing_error", calls |-> <<>>]
       ELSE IF \E i \in 1..Len(build_pipelines) : cv[i] = Raise
       THEN [status |-> "library_error", calls |-> TrainLog(cv, 1)]
       ELSE LET trained == [i \in 1..Len(build_pipelines) |->
                               [name |-> build_pipelines[i], cv_accuracy |-> cv[i].accuracy]]
                models == sort_by_accuracy(trained)
            IN [status |-> "ok",
                calls |-> TrainLog(cv, 1),
                effective_folds |-> trainer_effective_folds(folds, y),
                models |-> models,
                best_model |-> models[1],
                n_samples |-> n_samples,
                n_classes |-> n_classes]

train_all(folds, y, cv) ==
    LET n_samples == Len(y)
        n_classes == Cardinality(unique(y))
    IN IF n_samples < folds
       THEN [status |-> "sizing_error", calls |-> <<>>]
       ELSE IF n_classes < 2
       THEN [status |-> "class_count_error", calls |-> <<>>]
       ELSE IF \E i \in 1..Len(build_pipelines) : cv[i] = Raise
       THEN [status |-> "library_error", calls |-> TrainLog(cv, 1)]
       ELSE LET trained == [i \in 1..Len(build_pipelines) |->
                               [name |-> build_pipelines[i], cv_accuracy |-> cv[i].accuracy]]
                models == sort_by_accuracy(trained)
            IN [status |-> "ok",
                calls |-> TrainLog(cv, 1),
                effective_folds |-> trainer_effective_folds(folds, y),
                models |-> models,
                best_model |-> models[1],
                n_samples |-> n_samples,
                n_classes |-> n_classes]

\* variant: the evaluator adapts the folds downward but does not floor them
evaluator_effective_folds_unfloored(folds, y) ==
    LET min_class_count == Min({bincount(y, c) : c \in unique(y)})
    IN Min({folds, min_class_count})

evaluator_effective_folds(folds, y) ==
    LET min_class_count == Min({bincount(y, c) : c \in unique(y)})
        effective_folds == Min({folds, min_class_count})
    IN IF effective_folds < 2 THEN 2 ELSE effective_folds

\* sorted(unique_classes) as a sequence
RECURSIVE SortedSeq(_)
SortedSeq(S) ==
    IF S = {} THEN <<>> ELSE <<Min(S)>> \o SortedSeq(S \ {Min(S)})

\* variant: the report covers every class of the taxonomy
present_labels_all_classes(y) == [i \in 1..Len(FAULT_LABELS) |-> i - 1]

\* present_labels = sorted(unique_classes)
present_labels(y) == SortedSeq(unique(y))

\* cross_val_predict returning the out-of-fold predictions y_pred
Predicted(y_pred) == [raised |-> FALSE, y_pred |-> y_pred]

\* confusion_matrix(y, y_pred, labels): entry [i][j] counts the samples of
\* class labels[i] predicted as labels[j]
confusion_matrix(y, y_pred, labels) ==
    [i \in 1..Len(labels) |->
        [j \in 1..Len(labels) |->
            Cardinality({n \in 1..Len(y) : y[n] = labels[i] /\ y_pred[n] = labels[j]})]]

\* the support classification_report gives a class: its count in y
evaluate(folds, y, lib) ==
    IF unique(y) = {}
    THEN [status |-> "value_error"]
    ELSE IF lib = Raise
    THEN [status |-> "library_error",
          effective_folds |-> evaluator_effective_folds(folds, y)]
    ELSE LET labels == present_labels(y)
         IN [status |-> "ok",
             effective_folds |-> evaluator_effective_folds(folds, y),
             label_names |-> [i \in 1..Len(labels) |-> FAULT_LABELS[labels[i] + 1]],
             class_metrics |-> [i \in 1..Len(labels) |->
                                  [fault_type |-> INDEX_TO_FAULT[labels[i]],
                                   support |-> bincount(y, labels[i])]],
             confusion_matrix |-> confusion_matrix(y, lib.y_pred, labels),
             n_samples |-> Len(y)]

-----------------------------------------------------------------------------
(* Specification of the trainer and the evaluator on label vectors         *)

NotRun == [status |-> "none"]

MaxLabels == 4
MaxFolds == 3

LabelChoices == {0, 3, 6}

CVScores == {5000, 7500, 10000}

LabelVectors == UNION {[1..n -> LabelChoices] : n \in 0..MaxLabels}

CVOutcomes == [1..Len(build_pipelines) -> {Score(a) : a \in CVScores} \cup {Raise}]

\* the out-of-fold predictions cross_val_predict may return, each a class
\* the folds were fitted on: all correct, all the lowest class, all the highest
Predictions(y) ==
    IF y = <<>> THEN {<<>>}
    ELSE {y, [i \in 1..Len(y) |-> Min(unique(y))], [i \in 1..Len(y) |-> Max(unique(y))]}

InitTrainer ==
    /\ classifier = NoModel
    /\ artifact = NoModel
    /\ n_folds \in 1..MaxFolds
    /\ \E y \in LabelVectors :
          out = [op |-> "input", y |-> y, train |-> NotRun, eval |-> NotRun]

TrainAll ==
    /\ out.op \in {"input", "evaluate"}
    /\ out.train = NotRun
    /\ \E cv \in CVOutcomes :
          out' = [out EXCEPT !.op = "train_all",
                             !.train = train_all(n_folds, out.y, cv)]
    /\ UNCHANGED <<classifier, artifact, n_folds>>

Evaluate ==
    /\ out.op \in {"input", "train_all"}
    /\ out.eval = NotRun
    /\ \E lib \in {Raise} \cup {Predicted(y_pred) : y_pred \in Predictions(out.y)} :
          out' = [out EXCEPT !.op = "evaluate",
                             !.eval = evaluate(n_folds, out.y, lib)]
    /\ UNCHANGED <<classifier, artifact, n_folds>>

NextTrainer == TrainAll \/ Evaluate

SpecTrainer == InitTrainer /\ [][NextTrainer]_vars

-----------------------------------------------------------------------------
(* Samples and dataset preparation.  A sample is identified by its id, an  *)
(* index into SamplePool, which gives its gas reading.                     *)

reading_normal == GasReading(15, 5, 3, 2, 0, 200, 1500, 20000, 55000)

reading_d2 == GasReading(1500, 200, 60, 400, 500, 300, 1200, 17000, 48000)

reading_t3 == GasReading(300, 400, 150, 1200, 15, 600, 5000, 16000, 48000)

reading_zero == GasReading(0, 0, 0, 0, 0, 0, 0, 0, 0)

SamplePool == <<reading_normal, reading_d2, reading_t3, reading_zero>>

SampleIds == 1..Len(SamplePool)

gas_reading(sample) == SamplePool[sample]

FEATURE_NAMES == field_names

\* variant: the features are read in the reverse of the canonical order
extract_features_reversed(reading) ==
    [i \in 1..Len(FEATURE_NAMES) |-> reading[FEATURE_NAMES[Len(FEATURE_NAMES) + 1 - i]]]

extract_features(reading) == [i \in 1..Len(FEATURE_NAMES) |-> reading[FEATURE_NAMES[i]]]

\* diagnose_all is a pure function: its results on the pool, computed once
PoolDiagnosis == Tabulate([sample \in SampleIds |-> diagnose_all(gas_reading(sample))])

auto_label(sample) == PoolDiagnosis[sample].consensus_fault

prepare_dataset(samples, with_service) ==
    IF samples = <<>>
    THEN [X |-> <<>>, n_columns |-> Len(FEATURE_NAMES), y |-> <<>>,
          fault_labels |-> <<>>, sample_ids |-> <<>>]
    ELSE LET labels == [i \in 1..Len(samples) |->
                           IF with_service THEN auto_label(samples[i]) ELSE "N"]
         IN [X |-> [i \in 1..Len(samples) |-> extract_features(gas_reading(samples[i]))],
             n_columns |-> Len(FEATURE_NAMES),
             y |-> [i \in 1..Len(samples) |-> FAULT_TO_INDEX[labels[i]]],
             fault_labels |-> labels,
             sample_ids |-> samples]

-----------------------------------------------------------------------------
MaxSamples == 3

SeqsUpTo(S, n) == UNION {[1..k -> S] : k \in 0..n}

\* the samples the AI service is trained on and asked about
ServiceSamples == {1, 2}

-----------------------------------------------------------------------------
(* Fault classifier (inference) and AI service.  A fitted pipeline is the  *)
(* set of classes it was fitted on, whether its final estimator exposes    *)
(* predict_proba, and the decision function it learned on the pool.        *)

Pipeline(classes, proba, predict) ==
    [loaded |-> TRUE, classes |-> classes, proba |-> proba, predict |-> predict]

\* pipelines that fitting on the label vector y can produce: all four
\* candidates expose predict_proba and predict one of the classes seen
FittedPipelines(y) == {Pipeline(unique(y), TRUE, f) : f \in [ServiceSamples -> unique(y)]}

None == "None"

NoProbabilities == [present |-> FALSE]

\* FaultClassifier.classify
classifier_classify(pipeline, sample) ==
    [status |-> "ok", fault |-> INDEX_TO_FAULT[pipeline.predict[sample]]]

\* FaultClassifier.classify_with_probabilities
classifier_classify_with_probabilities(pipeline, sample) ==
    IF ~pipeline.proba
    THEN [status |-> "AttributeError"]
    ELSE [status |-> "ok",
          fault |-> INDEX_TO_FAULT[pipeline.predict[sample]],
          probabilities |-> [present |-> TRUE,
                             classes |-> {INDEX_TO_FAULT[c] : c \in pipeline.classes}]]

\* FaultClassifier.classify_batch
\* variant: no early return, the pipeline is asked to predict on every list
classifier_classify_batch_always_predicts(pipeline, samples) ==
    [status |-> "ok",
     faults |-> [i \in 1..Len(samples) |-> INDEX_TO_FAULT[pipeline.predict[samples[i]]]],
     predict_calls |-> 1]

\* predict_calls: how many times the pipeline's predict is invoked
classifier_classify_batch(pipeline, samples) ==
    IF samples = <<>>
    THEN [status |-> "ok", faults |-> <<>>, predict_calls |-> 0]
    ELSE [status |-> "ok",
          faults |-> [i \in 1..Len(samples) |-> INDEX_TO_FAULT[pipeline.predict[samples[i]]]],
          predict_calls |-> 1]

\* variant: the artifact is loaded without the existence test, so a missing
\* file surfaces as the loader's FileNotFoundError
get_classifier_unguarded_load(cls, art) ==
    IF cls # NoModel THEN [found |-> TRUE, clf |-> cls, cache |-> cls]
    ELSE IF art # NoModel THEN [found |-> TRUE, clf |-> art, cache |-> art]
    ELSE [found |-> FALSE, error |-> "FileNotFoundError", cache |-> cls]

\* variant: the artifact is read again whenever it exists, the cache is only
\* the fallback
get_classifier_rereads_artifact(cls, art) ==
    IF art # NoModel THEN [found |-> TRUE, clf |-> art, cache |-> art]
    ELSE IF cls # NoModel THEN [found |-> TRUE, clf |-> cls, cache |-> cls]
    ELSE [found |-> FALSE, error |-> "RuntimeError", cache |-> cls]

\* AIService._get_classifier on cache cls and artifact art: the classifier to
\* use (if any) and the cache afterwards
get_classifier(cls, art) ==
    IF cls # NoModel THEN [found |-> TRUE, clf |-> cls, cache |-> cls]
    ELSE IF art # NoModel THEN [found |-> TRUE, clf |-> art, cache |-> art]
    ELSE [found |-> FALSE, error |-> "RuntimeError", cache |-> cls]

\* AIService.load_model: from_file raises when there is no artifact, otherwise
\* the loaded pipeline replaces the cache
ai_load_model(cls, art) ==
    IF art = NoModel
    THEN [res |-> [status |-> "FileNotFoundError"], cache |-> cls]
    ELSE [res |-> [status |-> "ok"], cache |-> art]

\* variant: only the in-memory classifier counts, the artifact is not looked at
has_model_cache_only(cls, art) == cls # NoModel

has_model(cls, art) == IF cls # NoModel THEN TRUE ELSE art # NoModel

\* AIService.classify / classify_with_proba / classify_batch: the outcome and
\* the cache afterwards
ai_classify(cls, art, sample) ==
    LET g == get_classifier(cls, art)
    IN IF ~g.found THEN [res |-> [status |-> g.error], cache |-> g.cache]
       ELSE [res |-> classifier_classify(g.clf, sample), cache |-> g.cache]

ai_classify_with_proba(cls, art, sample) ==
    LET g == get_classifier(cls, art)
    IN IF ~g.found THEN [res |-> [status |-> g.error], cache |-> g.cache]
       ELSE [res |-> classifier_classify_with_probabilities(g.clf, sample),
             cache |-> g.cache]

ai_classify_batch(cls, art, samples) ==
    LET g == get_classifier(cls, art)
    IN IF ~g.found THEN [res |-> [status |-> g.error], cache |-> g.cache]
       ELSE [res |-> classifier_classify_batch(g.clf, samples), cache |-> g.cache]

-----------------------------------------------------------------------------
(* Unified reconciliation                                                  *)

Bool(b) == IF b THEN "True" ELSE "False"

\* variant: the fallback to plain classification keeps the predicted fault
\* but does not compute the agreement flag
reconcile_fallback_no_agree(normative, cls, art, sample) ==
    LET none == [sample |-> sample, normative |-> normative, ai_fault |-> None,
                 ai_probabilities |-> NoProbabilities, agree |-> None,
                 raised |-> None]
    IN IF ~has_model(cls, art)
       THEN [result |-> none, cache |-> cls]
       ELSE LET p == ai_classify_with_proba(cls, art, sample)
            IN IF p.res.status = "ok"
               THEN [result |-> [none EXCEPT
                                   !.ai_fault = p.res.fault,
                                   !.ai_probabilities = p.res.probabilities,
                                   !.agree = Bool(normative.consensus_fault = p.res.fault)],
                     cache |-> p.cache]
               ELSE IF p.res.status \in {"RuntimeError", "AttributeError"}
               THEN LET c == ai_classify(p.cache, art, sample)
                    IN IF c.res.status = "ok"
                       THEN [result |-> [none EXCEPT !.ai_fault = c.res.fault],
                             cache |-> c.cache]
                       ELSE IF c.res.status = "RuntimeError"
                       THEN [result |-> none, cache |-> c.cache]
                       ELSE [result |-> [none EXCEPT !.raised = c.res.status],
                             cache |-> c.cache]
               ELSE [result |-> [none EXCEPT !.raised = p.res.status], cache |-> p.cache]

\* UnifiedDiagnosisService.diagnose after the normative diagnosis: the AI
\* diagnosis of the sample (when a model exists) and the agreement flag
reconcile(normative, cls, art, sample) ==
    LET none == [sample |-> sample, normative |-> normative, ai_fault |-> None,
                 ai_probabilities |-> NoProbabilities, agree |-> None,
                 raised |-> None]
    IN IF ~has_model(cls, art)
       THEN [result |-> none, cache |-> cls]
       ELSE LET p == ai_classify_with_proba(cls, art, sample)
            IN IF p.res.status = "ok"
               THEN [result |-> [none EXCEPT
                                   !.ai_fault = p.res.fault,
                                   !.ai_probabilities = p.res.probabilities,
                                   !.agree = Bool(normative.consensus_fault = p.res.fault)],
                     cache |-> p.cache]
               ELSE IF p.res.status \in {"RuntimeError", "AttributeError"}
               THEN LET c == ai_classify(p.cache, art, sample)
                    IN IF c.res.status = "ok"
                       THEN [result |-> [none EXCEPT
                                           !.ai_fault = c.res.fault,
                                           !.agree = Bool(normative.consensus_fault = c.res.fault)],
                             cache |-> c.cache]
                       ELSE IF c.res.status = "RuntimeError"
                       THEN [result |-> none, cache |-> c.cache]
                       ELSE [result |-> [none EXCEPT !.raised = c.res.status],
                             cache |-> c.cache]
               ELSE [result |-> [none EXCEPT !.raised = p.res.status], cache |-> p.cache]

\* UnifiedDiagnosisService.diagnose: the result and the cache afterwards
unified_diagnose(cls, art, sample) == reconcile(PoolDiagnosis[sample], cls, art, sample)

RECURSIVE diagnose_batch(_, _, _)
diagnose_batch(cls, art, samples) ==
    IF samples = <<>> THEN [details |-> <<>>, cache |-> cls]
    ELSE LET first == unified_diagnose(cls, art, Head(samples))
             rest == diagnose_batch(first.cache, art, Tail(samples))
         IN [details |-> <<first.result>> \o rest.details, cache |-> rest.cache]

\* variant: every detail is counted as comparable
comparison_summary_counts_all(details) ==
    LET total == Len(details)
        agreements == Cardinality({i \in 1..Len(details) : details[i].agree = "True"})
        disagreements == total - agreements
        pct == IF total > 0 THEN RoundDiv(agreements * 1000, total) ELSE 0
    IN [total |-> total, agreements |-> agreements,
        disagreements |-> disagreements, agreement_pct |-> pct,
        details |-> details]

\* the statistics compare derives from the results of diagnose_batch
comparison_summary(details) ==
    LET comparable == {i \in 1..Len(details) : details[i].agree # None}
        total == Cardinality(comparable)
        agreements == Cardinality({i \in comparable : details[i].agree = "True"})
        disagreements == total - agreements
        pct == IF total > 0 THEN RoundDiv(agreements * 1000, total) ELSE 0
    IN [total |-> total, agreements |-> agreements,
        disagreements |-> disagreements, agreement_pct |-> pct,
        details |-> details]

compare(cls, art, samples) ==
    LET batch == diagnose_batch(cls, art, samples)
    IN [summary |-> comparison_summary(batch.details), cache |-> batch.cache]

-----------------------------------------------------------------------------
(* Specification of the AI service and the unified diagnosis service       *)

\* what the artifact path may hold when the service is constructed: nothing,
\* or a pipeline serialized earlier, with or without predict_proba
StoredPipelines ==
    {Pipeline({0, 3}, proba, f) : proba \in BOOLEAN, f \in [ServiceSamples -> {0, 3}]}

\* the statuses train_all can end with on each dataset, computed once
TrainStatuses ==
    Tabulate([nf \in 1..MaxFolds |->
        Tabulate([y \in SeqsUpTo({FAULT_TO_INDEX[auto_label(sm)] : sm \in ServiceSamples},
                                 MaxSamples) |->
            {train_all(nf, y, cv).status : cv \in CVOutcomes}])])

Init ==
    /\ classifier = NoModel
    /\ artifact \in {NoModel} \cup StoredPipelines
    /\ n_folds \in 2..MaxFolds
    /\ out = [op |-> "init"]

\* what a call starts from: nothing cached and nothing persisted, or else
\* the classifier it will work with (the cached one, else the persisted one)
NoModelAtAll == classifier = NoModel /\ artifact = NoModel

ModelInEffect == IF classifier # NoModel THEN classifier ELSE artifact

\* what the previous call was: a successful train call, or something else
Summary(o) ==
    IF o.op = "train" /\ o.status = "ok"
    THEN [op |-> o.op, status |-> o.status, save |-> o.save, no_model |-> o.no_model]
    ELSE [op |-> "other"]

\* variant: the best model is written to disk whether or not save was asked
saved_artifact_always(save, pipeline, art) == pipeline

\* if save: trainer.save_model(result.best_model, model_path)
saved_artifact(save, pipeline, art) == IF save THEN pipeline ELSE art

\* AIService.train(samples, save)
Train ==
    \E samples \in SeqsUpTo(ServiceSamples, MaxSamples), save \in BOOLEAN :
        LET dataset == prepare_dataset(samples, TRUE)
        IN \E status \in TrainStatuses[n_folds][dataset.y] :
              IF status = "ok"
              THEN \E pipeline \in FittedPipelines(dataset.y) :
                      /\ artifact' = saved_artifact(save, pipeline, artifact)
                      /\ classifier' = pipeline
                      /\ out' = [op |-> "train", save |-> save, status |-> status,
                                 no_model |-> NoModelAtAll]
                      /\ UNCHANGED n_folds
              ELSE /\ out' = [op |-> "train", save |-> save, status |-> status,
                              no_model |-> NoModelAtAll]
                   /\ UNCHANGED <<classifier, artifact, n_folds>>

\* AIService.classify(reading)
Classify ==
    \E sample \in ServiceSamples :
        LET r == ai_classify(classifier, artifact, sample)
        IN /\ classifier' = r.cache
           /\ out' = [op |-> "classify", sample |-> sample, res |-> r.res,
                      no_model |-> NoModelAtAll, before |-> Summary(out)]
           /\ UNCHANGED <<artifact, n_folds>>

\* AIService.classify_with_proba(reading)
ClassifyWithProba ==
    \E sample \in ServiceSamples :
        LET r == ai_classify_with_proba(classifier, artifact, sample)
        IN /\ classifier' = r.cache
           /\ out' = [op |-> "classify_with_proba", sample |-> sample, res |-> r.res,
                      no_model |-> NoModelAtAll, before |-> Summary(out)]
           /\ UNCHANGED <<artifact, n_folds>>

\* AIService.classify_batch(readings)
ClassifyBatch ==
    \E samples \in SeqsUpTo(ServiceSamples, MaxSamples) :
        LET r == ai_classify_batch(classifier, artifact, samples)
        IN /\ classifier' = r.cache
           /\ out' = [op |-> "classify_batch", samples |-> samples, res |-> r.res,
                      no_model |-> NoModelAtAll, before |-> Summary(out)]
           /\ UNCHANGED <<artifact, n_folds>>

\* UnifiedDiagnosisService.diagnose(sample)
Diagnose ==
    \E sample \in ServiceSamples :
        LET r == unified_diagnose(classifier, artifact, sample)
        IN /\ classifier' = r.cache
           /\ out' = [op |-> "diagnose", sample |-> sample, result |-> r.result,
                      model |-> ModelInEffect]
           /\ UNCHANGED <<artifact, n_folds>>

\* UnifiedDiagnosisService.compare(samples)
Compare ==
    \E samples \in SeqsUpTo(ServiceSamples, MaxSamples) :
        LET r == compare(classifier, artifact, samples)
        IN /\ classifier' = r.cache
           /\ out' = [op |-> "compare", samples |-> samples, summary |-> r.summary]
           /\ UNCHANGED <<artifact, n_folds>>

Next == Train \/ Classify \/ ClassifyWithProba \/ ClassifyBatch \/ Diagnose \/ Compare

Spec == Init /\ [][Next]_vars

-----------------------------------------------------------------------------
(* Specification of the normative diagnosis service on its own             *)

InitDiag ==
    /\ classifier = NoModel
    /\ artifact = NoModel
    /\ n_folds = DEFAULT_N_FOLDS
    /\ \/ \E reading \in Readings : out = [op |-> "input", reading |-> reading]
       \/ \E samples \in SeqsUpTo(SampleIds, MaxSamples), with_service \in BOOLEAN :
             out = [op |-> "input_samples", samples |-> samples,
                    with_service |-> with_service]

DiagnoseAll ==
    /\ out.op = "input"
    /\ out' = [op |-> "diagnose_all", reading |-> out.reading,
               result |-> diagnose_all(out.reading)]
    /\ UNCHANGED <<classifier, artifact, n_folds>>

PrepareDataset ==
    /\ out.op = "input_samples"
    /\ out' = [op |-> "prepare_dataset", samples |-> out.samples,
               with_service |-> out.with_service,
               dataset |-> prepare_dataset(out.samples, out.with_service)]
    /\ UNCHANGED <<classifier, artifact, n_folds>>

\* the names diagnose_single is asked for: every METHOD_NAME as written, in
\* lower case and in upper case, and names of no classifier
MethodNameQueries ==
    LET written == {Chars[available_methods[i]] : i \in 1..Len(available_methods)}
    IN written \cup {lower(n) : n \in written} \cup {upper(n) : n \in written}
       \cup {<<>>, <<"M", "e", "t", "o", "d", "o", "I", "n", "v", "e", "n", "t", "a", "d", "o">>,
             <<"R", "o", "g", "e", "r", "s", " ">>, <<"D", "u", "v", "a", "l">>}

DiagnoseSingle ==
    /\ out.op = "input"
    /\ \E method_name \in MethodNameQueries :
          out' = [op |-> "diagnose_single", reading |-> out.reading,
                  method_name |-> method_name,
                  res |-> diagnose_single(out.reading, method_name)]
    /\ UNCHANGED <<classifier, artifact, n_folds>>

NextDiag == DiagnoseAll \/ PrepareDataset \/ DiagnoseSingle

SpecDiag == InitDiag /\ [][NextDiag]_vars

-----------------------------------------------------------------------------
(* Properties                                                              *)

RECURSIVE SumOver(_, _)
SumOver(f, S) ==
    IF S = {} THEN 0
    ELSE LET x == CHOOSE x \in S : TRUE IN f[x] + SumOver(f, S \ {x})

Abs(x) == IF x < 0 THEN -x ELSE x

\* tenths is part / whole x 100 rounded to one decimal (to the nearest tenth)
IsPercentOf(tenths, part, whole) == 2 * Abs(tenths * whole - 1000 * part) <= whole

VotesFor(d, fault) ==
    Cardinality({i \in 1..Len(d.results) : d.results[i].fault_type = fault})

FirstVote(d, fault) ==
    Min({i \in 1..Len(d.results) : d.results[i].fault_type = fault})

\* C1: for every valid reading diagnose_all returns exactly six method
\* results, one per classifier; the vote counts sum to 6; agreement_pct lies
\* in [0, 100] and is (votes for the consensus fault / 6) x 100 rounded to one
\* decimal.
C1_SixResultsVotesSumAgreement ==
    out.op = "diagnose_all" =>
        LET d == out.result
        IN /\ Len(d.results) = 6
           /\ [i \in 1..Len(d.results) |-> d.results[i].method_name] = available_methods
           /\ SumOver(d.vote_counts, DOMAIN d.vote_counts) = 6
           /\ \A f \in DOMAIN d.vote_counts : d.vote_counts[f] = VotesFor(d, f)
           /\ d.agreement_pct >= 0 /\ d.agreement_pct <= 1000
           /\ IsPercentOf(d.agreement_pct, VotesFor(d, d.consensus_fault), 6)

\* six different votes: the agreement is 1/6, which rounds up to 16.7
C1_Witness ==
    /\ out.op = "diagnose_all"
    /\ Cardinality(DOMAIN out.result.vote_counts) = 6
    /\ out.result.agreement_pct = 167

\* C2: the consensus fault has the highest vote count among the six
\* classifiers, and among the fault types that tie for the highest count it
\* is the one voted first in invocation order.
C2_MajorityFirstSeenWins ==
    out.op = "diagnose_all" =>
        LET d == out.result
        IN /\ \A i \in 1..Len(d.results) :
                 VotesFor(d, d.results[i].fault_type) <= VotesFor(d, d.consensus_fault)
           /\ \A i \in 1..Len(d.results) :
                 VotesFor(d, d.results[i].fault_type) = VotesFor(d, d.consensus_fault)
                    => FirstVote(d, d.consensus_fault) <= i

\* a tie for the highest count in which the winner is not the first vote
C2_Witness ==
    /\ out.op = "diagnose_all"
    /\ FirstVote(out.result, out.result.consensus_fault) > 1
    /\ \E i \in 1..Len(out.result.results) :
          /\ out.result.results[i].fault_type # out.result.consensus_fault
          /\ VotesFor(out.result, out.result.results[i].fault_type)
                = VotesFor(out.result, out.result.consensus_fault)

-----------------------------------------------------------------------------
(* AI service and unified reconciliation                                   *)

ClassifyOps == {"classify", "classify_with_proba", "classify_batch"}

\* C3: on an AI service with no cached classifier and no persisted artifact,
\* classify, classify_with_proba and classify_batch fail with the no-model
\* availability error (RuntimeError); a successful train call with saving
\* enabled leaves a cached classifier and the same pipeline persisted, and
\* the classification call that follows it succeeds and returns fault types.
C3_NoModelErrorThenTrainedSucceeds ==
    /\ out.op \in ClassifyOps =>
          /\ out.no_model => (out.res.status = "RuntimeError" /\ classifier = NoModel)
          /\ (out.before.op = "train" /\ out.before.status = "ok" /\ out.before.save)
                => /\ out.res.status = "ok"
                   /\ out.op \in {"classify", "classify_with_proba"}
                         => out.res.fault \in FaultNames
                   /\ out.op = "classify_batch"
                         => /\ Len(out.res.faults) = Len(out.samples)
                            /\ \A i \in 1..Len(out.samples) :
                                  out.res.faults[i] \in FaultNames
    /\ (out.op = "train" /\ out.status = "ok" /\ out.save)
          => (classifier # NoModel /\ artifact = classifier)

\* a classification that succeeds right after a saving train call made on a
\* service that had no model at all
C3_Witness ==
    /\ out.op = "classify_with_proba"
    /\ out.res.status = "ok"
    /\ out.before.op = "train"
    /\ out.before.status = "ok"
    /\ out.before.save
    /\ out.before.no_model

\* the results diagnose has returned in the current state: the one of a
\* diagnose call, or the details of a compare call
ReturnedResults ==
    IF out.op = "diagnose" /\ out.result.raised = None THEN {out.result}
    ELSE IF out.op = "compare"
    THEN {out.summary.details[i] : i \in 1..Len(out.summary.details)}
    ELSE {}

\* C4: in every result returned by diagnose the agree flag is null exactly
\* when ai_fault is null; when a prediction exists agree equals
\* (consensus fault = predicted fault); probabilities are present only when
\* a prediction exists.
C4_AgreeIffPrediction ==
    \A r \in ReturnedResults :
        /\ (r.agree = None) <=> (r.ai_fault = None)
        /\ r.ai_fault # None =>
              r.agree = (IF r.normative.consensus_fault = r.ai_fault
                         THEN "True" ELSE "False")
        /\ r.ai_probabilities.present => r.ai_fault # None

\* a prediction obtained through the fallback (no probabilities) that
\* disagrees with the consensus
C4_Witness ==
    /\ out.op = "diagnose"
    /\ out.result.ai_fault # None
    /\ ~out.result.ai_probabilities.present
    /\ out.result.agree = "False"

\* C5: diagnose always returns a result carrying the consensus-engine outcome
\* of the sample's reading and never propagates a model-availability or
\* probability-capability error: with a probability-capable model the result
\* has the predicted fault and probabilities; with a model without
\* probability support it has the predicted fault and no probabilities; with
\* no model at all it has no AI result.
C5_DiagnoseNeverPropagates ==
    out.op = "diagnose" =>
        LET r == out.result
            m == out.model
        IN /\ r.raised = None
           /\ r.sample = out.sample
           /\ r.normative = diagnose_all(gas_reading(out.sample))
           /\ (m # NoModel /\ m.proba) =>
                 /\ r.ai_fault = INDEX_TO_FAULT[m.predict[out.sample]]
                 /\ r.ai_probabilities.present
           /\ (m # NoModel /\ ~m.proba) =>
                 /\ r.ai_fault = INDEX_TO_FAULT[m.predict[out.sample]]
                 /\ ~r.ai_probabilities.present
           /\ m = NoModel =>
                 /\ r.ai_fault = None
                 /\ ~r.ai_probabilities.present
                 /\ r.agree = None

\* the model has no probability support: diagnose falls back to plain
\* classification
C5_Witness ==
    /\ out.op = "diagnose"
    /\ out.model # NoModel
    /\ ~out.model.proba
    /\ out.result.ai_fault \in FaultNames
    /\ ~out.result.ai_probabilities.present

\* C6: compare returns one detail per input sample in input order; total
\* counts only the samples with both a consensus and an AI prediction;
\* agreements + disagreements = total <= number of samples; agreement_pct is
\* agreements / total x 100 rounded to one decimal, and 0 when total is 0.
C6_CompareCounts ==
    out.op = "compare" =>
        LET c == out.summary
            both == {i \in 1..Len(c.details) : c.details[i].ai_fault # None}
        IN /\ Len(c.details) = Len(out.samples)
           /\ \A i \in 1..Len(out.samples) :
                 /\ c.details[i].sample = out.samples[i]
                 /\ c.details[i].normative = diagnose_all(gas_reading(out.samples[i]))
           /\ c.total = Cardinality(both)
           /\ c.agreements = Cardinality({i \in both :
                 c.details[i].normative.consensus_fault = c.details[i].ai_fault})
           /\ c.agreements + c.disagreements = c.total
           /\ c.agreements >= 0 /\ c.disagreements >= 0
           /\ c.total <= Len(out.samples)
           /\ c.total > 0 => IsPercentOf(c.agreement_pct, c.agreements, c.total)
           /\ c.total = 0 => c.agreement_pct = 0

\* three comparable samples of which two agree: 66.7 percent
C6_Witness ==
    /\ out.op = "compare"
    /\ Len(out.samples) = 3
    /\ out.summary.total = 3
    /\ out.summary.agreements = 2
    /\ out.summary.agreement_pct = 667

-----------------------------------------------------------------------------
(* Trainer and evaluator                                                   *)

ValidationErrors == {"sizing_error", "class_count_error"}

\* C7 as stated: a sizing error whenever the sample count is below the
\* requested fold count, and a class-count error whenever fewer than two
\* distinct labels are present, both before any candidate is cross-validated
\* or fitted.
C7_AsStated ==
    out.train # NotRun =>
        /\ Len(out.y) < n_folds => out.train.status = "sizing_error"
        /\ Cardinality(unique(out.y)) < 2 => out.train.status = "class_count_error"
        /\ out.train.status \in ValidationErrors => out.train.calls = <<>>

\* C7: training fails with a sizing error when the sample count is less than
\* the requested fold count; it fails with a class-count error when the
\* sample count is at least the fold count and fewer than two distinct
\* labels are present; both errors are raised before any candidate model is
\* cross-validated or fitted, and a training that passes both validations
\* does call the library.
C7_SizingBeforeClassCount ==
    out.train # NotRun =>
        /\ Len(out.y) < n_folds => out.train.status = "sizing_error"
        /\ (Len(out.y) >= n_folds /\ Cardinality(unique(out.y)) < 2)
              => out.train.status = "class_count_error"
        /\ out.train.status \in ValidationErrors => out.train.calls = <<>>
        /\ out.train.status \notin ValidationErrors => out.train.calls # <<>>

\* enough samples, all of one class: the class-count error, no library call
C7_Witness ==
    /\ out.train # NotRun
    /\ Len(out.y) >= n_folds
    /\ Cardinality(unique(out.y)) = 1
    /\ out.train.status = "class_count_error"
    /\ out.train.calls = <<>>

\* C8: every successful train_all returns exactly four candidates (Random
\* Forest, SVM, KNN, MLP), ordered by non-increasing mean cross-validation
\* accuracy, and best_model is the first element of the list.
C8_FourCandidatesSortedBestFirst ==
    out.train.status = "ok" =>
        LET models == out.train.models
        IN /\ Len(models) = 4
           /\ {models[i].name : i \in 1..Len(models)} = {"Random Forest", "SVM", "KNN", "MLP"}
           /\ \A i \in 1..(Len(models) - 1) :
                 models[i].cv_accuracy >= models[i + 1].cv_accuracy
           /\ out.train.best_model = models[1]

\* the sort has moved the candidates: the last one trained is the best and
\* the first one trained is the worst
C8_Witness ==
    /\ out.train.status = "ok"
    /\ out.train.best_model.name = "MLP"
    /\ out.train.models[4].name = "Random Forest"
    /\ out.train.models[1].cv_accuracy > out.train.models[4].cv_accuracy

SmallestClassCount(y) == Min({bincount(y, c) : c \in unique(y)})

\* the fold count the spec describes: the requested one, reduced to the
\* smallest present class's sample count when that is smaller, at least 2
AdaptedFolds(folds, y) ==
    LET reduced == IF SmallestClassCount(y) < folds THEN SmallestClassCount(y) ELSE folds
    IN IF reduced < 2 THEN 2 ELSE reduced

\* C9: for the same requested fold count and label vector the trainer and
\* the evaluator use the same fold count: the requested one reduced to
\* the smallest present class's sample count when that is smaller, and never
\* less than 2.
C9_SameFoldAdaptation ==
    /\ out.train.status = "ok" =>
          /\ out.train.effective_folds = AdaptedFolds(n_folds, out.y)
          /\ out.train.effective_folds >= 2
    /\ out.eval.status \in {"ok", "library_error"} =>
          /\ out.eval.effective_folds = AdaptedFolds(n_folds, out.y)
          /\ out.eval.effective_folds >= 2
    /\ (out.train.status = "ok" /\ out.eval.status \in {"ok", "library_error"})
          => out.train.effective_folds = out.eval.effective_folds

\* three folds requested, the smallest class has two samples: both the
\* trainer and the evaluator have used two folds
C9_Witness ==
    /\ out.train.status = "ok"
    /\ out.eval.status = "ok"
    /\ n_folds = 3
    /\ SmallestClassCount(out.y) = 2
    /\ out.train.effective_folds = 2
    /\ out.eval.effective_folds = 2

-----------------------------------------------------------------------------
(* Dataset preparation                                                     *)

\* the position of a fault type in the FaultType enumeration, from 0
Ordinal(fault) == CHOOSE k \in 0..(Len(FaultType) - 1) : FaultType[k + 1] = fault

\* C10: prepare_dataset returns one feature row and one label per input
\* sample, in input order; each row is the sample's nine gas values in the
\* order h2, ch4, c2h6, c2h4, c2h2, co, co2, o2, n2; each label is the ordinal
\* of the consensus fault of the sample's reading when a consensus engine is
\* supplied and the ordinal of N when none is; an empty input yields a 0x9
\* matrix and an empty label vector.
C10_PrepareDataset ==
    out.op = "prepare_dataset" =>
        LET d == out.dataset
            n == Len(out.samples)
        IN /\ Len(d.X) = n
           /\ Len(d.y) = n
           /\ d.n_columns = 9
           /\ \A i \in 1..n :
                 LET r == gas_reading(out.samples[i])
                 IN /\ d.X[i] = <<r.h2, r.ch4, r.c2h6, r.c2h4, r.c2h2,
                                  r.co, r.co2, r.o2, r.n2>>
                    /\ d.y[i] = IF out.with_service
                                THEN Ordinal(diagnose_all(r).consensus_fault)
                                ELSE Ordinal("N")
           /\ n = 0 => (d.X = <<>> /\ d.y = <<>>)

\* three samples labelled by the consensus engine with three different
\* faults, in input order
C10_Witness ==
    /\ out.op = "prepare_dataset"
    /\ out.with_service
    /\ out.samples = <<3, 2, 1>>
    /\ out.dataset.y = <<6, 3, 0>>
    /\ out.dataset.X[1][1] = 300

-----------------------------------------------------------------------------
(* Specification of the pure functions on their own: the label mapping,    *)
(* the construction of a gas reading, safe_ratio                           *)

RawValues == {Num(-1), Num(0), Num(5), NaN, NotANumber}

\* nine values, all 5 ppm except at two positions
RawTuples ==
    {[k \in 1..Len(field_names) |-> IF k = i THEN a ELSE IF k = j THEN b ELSE Num(5)] :
        i \in 1..Len(field_names), j \in 1..Len(field_names), a \in RawValues, b \in RawValues}

MaxOperand == 4

Operands == (0 - MaxOperand)..MaxOperand

InitPure ==
    /\ classifier = NoModel
    /\ artifact = NoModel
    /\ n_folds = DEFAULT_N_FOLDS
    /\ \/ \E fault \in FaultNames : out = [op |-> "input_fault", fault |-> fault]
       \/ \E values \in RawTuples : out = [op |-> "input_values", values |-> values]
       \/ \E numerator \in Operands, denominator \in Operands :
             out = [op |-> "input_operands", numerator |-> numerator,
                    denominator |-> denominator]

\* FAULT_TO_INDEX[fault.name], then INDEX_TO_FAULT[index]
RoundTrip ==
    /\ out.op = "input_fault"
    /\ LET index == FAULT_TO_INDEX[out.fault]
       IN out' = [op |-> "round_trip", fault |-> out.fault, index |-> index,
                  decoded |-> INDEX_TO_FAULT[index]]
    /\ UNCHANGED <<classifier, artifact, n_folds>>

\* GasReading(h2, ..., n2)
Construct ==
    /\ out.op = "input_values"
    /\ out' = [op |-> "construct", values |-> out.values,
               res |-> new_GasReading(out.values)]
    /\ UNCHANGED <<classifier, artifact, n_folds>>

\* safe_ratio(numerator, denominator)
SafeRatio ==
    /\ out.op = "input_operands"
    /\ out' = [op |-> "safe_ratio", numerator |-> out.numerator,
               denominator |-> out.denominator,
               ratio |-> safe_ratio(out.numerator, out.denominator)]
    /\ UNCHANGED <<classifier, artifact, n_folds>>

NextPure == RoundTrip \/ Construct \/ SafeRatio

SpecPure == InitPure /\ [][NextPure]_vars

\* C11: the fault-type/ordinal mapping is a bijection between the nine fault
\* types and 0..8 in declaration order (N, PD, D1, D2, T1, T2, T3, DT, S), and
\* decoding the ordinal of a fault type gives that fault type back, so its
\* ordinal is unchanged by the round trip.
C11_OrdinalRoundTrip ==
    /\ {FAULT_TO_INDEX[f] : f \in FaultNames} = 0..8
    /\ Cardinality(FaultNames) = 9
    /\ out.op = "round_trip" =>
          /\ <<"N", "PD", "D1", "D2", "T1", "T2", "T3", "DT", "S">>[out.index + 1] = out.fault
          /\ out.decoded = out.fault
          /\ FAULT_TO_INDEX[out.decoded] = out.index

\* the round trip of the last fault type, S, through ordinal 8
C11_Witness ==
    /\ out.op = "round_trip"
    /\ out.fault = "S"
    /\ out.index = 8
    /\ out.decoded = "S"

\* a value that is a number and is not negative
IsNonNegativeNumber(value) == value.kind = "num" /\ value.val >= 0

\* the positions of the values that are not non-negative numbers
Offending(values) == {i \in 1..Len(values) : ~IsNonNegativeNumber(values[i])}

\* C12: constructing a GasReading succeeds exactly when all nine gas values
\* are numeric and non-negative (zero is valid); otherwise construction fails
\* with InvalidGasValueError naming the first offending gas in canonical field
\* order, and no reading object is produced.
C12_ConstructionValidates ==
    out.op = "construct" =>
        /\ out.res.status = "ok" <=> Offending(out.values) = {}
        /\ out.res.status = "ok" =>
              \A i \in 1..Len(field_names) :
                  out.res.reading[field_names[i]] = out.values[i]
        /\ Offending(out.values) # {} =>
              /\ out.res.status = "InvalidGasValueError"
              /\ out.res.gas = field_names[Min(Offending(out.values))]
              /\ "reading" \notin DOMAIN out.res

\* C13: safe_ratio(numerator, denominator) is numerator / denominator when
\* denominator > 0; when denominator <= 0 it is 999.0 if numerator > 0 and 0.0
\* otherwise.
C13_SafeRatio ==
    out.op = "safe_ratio" =>
        LET n == out.numerator
            d == out.denominator
            r == out.ratio
        IN /\ r[2] > 0
           /\ d > 0 => r[1] * d = n * r[2]
           /\ (d <= 0 /\ n > 0) => r[1] = 999 * r[2]
           /\ (d <= 0 /\ n <= 0) => r[1] = 0

\* a positive numerator over a zero denominator: the sentinel 999
C13_Witness ==
    /\ out.op = "safe_ratio"
    /\ out.numerator > 0
    /\ out.denominator = 0
    /\ out.ratio = <<999, 1>>

-----------------------------------------------------------------------------
(* The six classifiers, each on its own result within diagnose_all         *)

\* the result of the classifier with the given identifier
ResultOf(d, method_name) ==
    CHOOSE r \in {d.results[i] : i \in 1..Len(d.results)} : r.method_name = method_name

\* C14: the IEEE C57.104 overall condition is the maximum of the seven
\* per-gas conditions and the TDCG condition, each in 1..4; the fault is N
\* exactly when the overall condition is at most 2; when it is 3 or 4 the
\* fault is one of D1, D2, T1, T2, T3, PD, S.
C14_IeeeOverallCondition ==
    out.op = "diagnose_all" =>
        LET r == ResultOf(out.result, "IEEE C57.104-2019")
            c == r.details.individual_conditions
        IN /\ DOMAIN c = {"h2", "ch4", "c2h6", "c2h4", "c2h2", "co", "co2"}
           /\ \A g \in DOMAIN c : c[g] \in 1..4
           /\ r.details.tdcg_condition \in 1..4
           /\ r.details.overall_condition \in 1..4
           /\ \A g \in DOMAIN c : c[g] <= r.details.overall_condition
           /\ r.details.tdcg_condition <= r.details.overall_condition
           /\ \/ r.details.overall_condition = r.details.tdcg_condition
              \/ \E g \in DOMAIN c : r.details.overall_condition = c[g]
           /\ r.fault_type = "N" <=> r.details.overall_condition <= 2
           /\ r.details.overall_condition >= 3 =>
                 r.fault_type \in {"D1", "D2", "T1", "T2", "T3", "PD", "S"}

\* overall condition 2 while the TDCG condition is 1: still normal
C14_Witness ==
    /\ out.op = "diagnose_all"
    /\ ResultOf(out.result, "IEEE C57.104-2019").details.overall_condition = 2
    /\ ResultOf(out.result, "IEEE C57.104-2019").details.tdcg_condition = 1
    /\ ResultOf(out.result, "IEEE C57.104-2019").fault_type = "N"

\* v lies in [low/10, high/10]; v lies below low/10; v lies above high/10
Within(v, low, high) == ~LT(v, low) /\ LE(v, high)
Below(v, low) == LT(v, low)
Above(v, high) == GT(v, high)

\* the fault a decision table assigns to a triple, N when it has none
Lookup(table, key) == IF key \in DOMAIN table THEN table[key] ELSE "N"

\* C15: the IEC 60599 and Rogers classifiers each encode their three gas
\* ratios into a code triple by fixed cut-points, every ratio falling into
\* exactly one code, and return exactly the fault their decision table
\* assigns to the triple, N when the triple is not in the table.
C15_RatioCodeTable ==
    out.op = "diagnose_all" =>
        LET iec == ResultOf(out.result, "IEC 60599:2022")
            rog == ResultOf(out.result, "Rogers")
            c2h2_c2h4 == ratio_c2h2_c2h4(out.reading)
            ch4_h2 == ratio_ch4_h2(out.reading)
            c2h4_c2h6 == ratio_c2h4_c2h6(out.reading)
        IN /\ iec.details.code_R1 \in 0..2
           /\ iec.details.code_R1 = 0 <=> Below(c2h2_c2h4, 1)
           /\ iec.details.code_R1 = 1 <=> Within(c2h2_c2h4, 1, 10)
           /\ iec.details.code_R1 = 2 <=> Above(c2h2_c2h4, 10)
           /\ iec.details.code_R2 \in 0..2
           /\ iec.details.code_R2 = 0 <=> Below(ch4_h2, 1)
           /\ iec.details.code_R2 = 1 <=> Within(ch4_h2, 1, 10)
           /\ iec.details.code_R2 = 2 <=> Above(ch4_h2, 10)
           /\ iec.details.code_R5 \in 0..2
           /\ iec.details.code_R5 = 0 <=> Below(c2h4_c2h6, 10)
           /\ iec.details.code_R5 = 1 <=> Within(c2h4_c2h6, 10, 30)
           /\ iec.details.code_R5 = 2 <=> Above(c2h4_c2h6, 30)
           /\ iec.details.pattern =
                 <<iec.details.code_R1, iec.details.code_R2, iec.details.code_R5>>
           /\ iec.fault_type = Lookup(IEC_DIAGNOSIS_TABLE, iec.details.pattern)
           /\ rog.details.code_R1 \in {5, 0, 1, 2}
           /\ rog.details.code_R1 = 5 <=> Below(ch4_h2, 1)
           /\ rog.details.code_R1 = 0 <=> Within(ch4_h2, 1, 10)
           /\ rog.details.code_R1 = 1 <=> (Above(ch4_h2, 10) /\ LE(ch4_h2, 30))
           /\ rog.details.code_R1 = 2 <=> Above(ch4_h2, 30)
           /\ rog.details.code_R2 \in 0..2
           /\ rog.details.code_R2 = 0 <=> Below(c2h2_c2h4, 1)
           /\ rog.details.code_R2 = 1 <=> Within(c2h2_c2h4, 1, 30)
           /\ rog.details.code_R2 = 2 <=> Above(c2h2_c2h4, 30)
           /\ rog.details.code_R5 \in 0..2
           /\ rog.details.code_R5 = 0 <=> Below(c2h4_c2h6, 10)
           /\ rog.details.code_R5 = 1 <=> Within(c2h4_c2h6, 10, 30)
           /\ rog.details.code_R5 = 2 <=> Above(c2h4_c2h6, 30)
           /\ rog.details.pattern =
                 <<rog.details.code_R1, rog.details.code_R2, rog.details.code_R5>>
           /\ rog.fault_type = Lookup(ROGERS_DIAGNOSIS_TABLE, rog.details.pattern)

\* a reading whose triples are in neither table: both classifiers return N
C15_Witness ==
    /\ out.op = "diagnose_all"
    /\ ResultOf(out.result, "IEC 60599:2022").details.pattern = <<0, 0, 1>>
    /\ ResultOf(out.result, "IEC 60599:2022").fault_type = "N"
    /\ ResultOf(out.result, "Rogers").details.pattern = <<5, 0, 1>>
    /\ ResultOf(out.result, "Rogers").fault_type = "N"

\* at least one of the six gases is above its significance threshold
AboveSignificance(reading) ==
    \/ reading.h2 > 100
    \/ reading.ch4 > 120
    \/ reading.c2h2 > 1
    \/ reading.c2h4 > 50
    \/ reading.c2h6 > 65
    \/ reading.co > 350

\* C16: the Dornenburg classifier is applicable exactly when at least one of
\* the six gases exceeds its significance threshold (H2 > 100, CH4 > 120,
\* C2H2 > 1, C2H4 > 50, C2H6 > 65, CO > 350); when none does it returns N with
\* applicable = false, and when it is applicable the result carries
\* applicable = true.
C16_DornenburgApplicability ==
    out.op = "diagnose_all" =>
        LET r == ResultOf(out.result, "Dornenburg")
        IN /\ r.details.applicable \in BOOLEAN
           /\ r.details.applicable <=> AboveSignificance(out.reading)
           /\ ~AboveSignificance(out.reading) => r.fault_type = "N"
           /\ r.fault_type \in {"N", "PD", "D1", "D2", "T1", "T2"}

\* acetylene exactly at its threshold of 1 ppm and nothing above: not
\* applicable
C16_Witness ==
    /\ out.op = "diagnose_all"
    /\ out.reading.c2h2 = 1
    /\ ~ResultOf(out.result, "Dornenburg").details.applicable
    /\ ResultOf(out.result, "Dornenburg").fault_type = "N"

\* C17: the Duval Triangle classifier returns N flagged not applicable
\* exactly when CH4, C2H4 and C2H2 are all zero; for every other reading it
\* returns applicable = true and one of the seven zone faults PD, D1, D2, T1,
\* T2, T3, DT, never N.
C17_TriangleApplicability ==
    out.op = "diagnose_all" =>
        LET r == ResultOf(out.result, "Triangulo de Duval 1")
            all_zero == out.reading.ch4 = 0 /\ out.reading.c2h4 = 0 /\ out.reading.c2h2 = 0
        IN /\ r.details.applicable \in BOOLEAN
           /\ ~r.details.applicable <=> all_zero
           /\ r.fault_type = "N" <=> all_zero
           /\ ~all_zero => r.fault_type \in {"PD", "D1", "D2", "T1", "T2", "T3", "DT"}

\* methane is the only one of the three gases present: 100 percent CH4, the
\* partial-discharge zone
C17_Witness ==
    /\ out.op = "diagnose_all"
    /\ out.reading.ch4 > 0
    /\ out.reading.c2h4 = 0
    /\ out.reading.c2h2 = 0
    /\ ResultOf(out.result, "Triangulo de Duval 1").details.applicable
    /\ ResultOf(out.result, "Triangulo de Duval 1").fault_type = "PD"

\* C18: the Duval Pentagon classifier returns N flagged not applicable when
\* H2, CH4, C2H6, C2H4 and C2H2 are all zero, and for every reading in which
\* at least one of those five gases is positive it returns applicable = true
\* with the five computed percentages and a pentagon zone fault.
C18_PentagonApplicability ==
    out.op = "diagnose_all" =>
        LET r == ResultOf(out.result, "Pentagono de Duval 1")
            p == duval_pentagon_percentages(out.reading)
            all_zero == /\ out.reading.h2 = 0 /\ out.reading.ch4 = 0
                        /\ out.reading.c2h6 = 0 /\ out.reading.c2h4 = 0
                        /\ out.reading.c2h2 = 0
        IN /\ all_zero => ~r.details.applicable /\ r.fault_type = "N"
           /\ ~all_zero =>
                /\ r.details.applicable
                /\ r.details.pct = [i \in 1..5 |-> RoundDiv(p[i][1] * 100, p[i][2])]
                /\ r.fault_type \in {"PD", "D1", "D2", "DT", "T1", "T2", "T3", "S"}

\* two names are the same up to the case of their letters
SameLetter(c, d) ==
    \E k \in 1..Len(ascii_uppercase) :
        {c, d} = {ascii_uppercase[k], ascii_lowercase[k]}

SameIgnoringCase(a, b) ==
    /\ Len(a) = Len(b)
    /\ \A i \in 1..Len(a) : a[i] = b[i] \/ SameLetter(a[i], b[i])

KnownAs(method_name) ==
    {i \in 1..Len(available_methods) :
        SameIgnoringCase(Chars[available_methods[i]], method_name)}

\* C19: diagnose_single matches the name against the six classifier
\* identifiers without regard to case: for a known name it returns exactly the
\* result diagnose_all produces for that classifier on the same reading (one
\* fault type, method name equal to the identifier); for an unknown name it
\* returns no result.
C19_DiagnoseSingle ==
    out.op = "diagnose_single" =>
        LET known == KnownAs(out.method_name)
        IN IF known = {}
           THEN out.res = NoResult
           ELSE /\ out.res.found
                /\ \A i \in known :
                      /\ out.res.result = diagnose_all(out.reading).results[i]
                      /\ out.res.result.method_name = available_methods[i]
                /\ out.res.result.fault_type \in FaultNames

\* the name is asked for in another case than the identifier is written in
C19_Witness ==
    /\ out.op = "diagnose_single"
    /\ out.method_name = <<"i", "e", "c", " ", "6", "0", "5", "9", "9", ":", "2", "0", "2", "2">>
    /\ out.res.found
    /\ out.res.result.method_name = "IEC 60599:2022"
    /\ out.res.result.fault_type # "N"

\* a name of no classifier
C19_WitnessUnknown ==
    /\ out.op = "diagnose_single"
    /\ KnownAs(out.method_name) = {}
    /\ out.method_name # <<>>
    /\ out.res = NoResult

-----------------------------------------------------------------------------
(* Batch classification of an empty list                                   *)

\* C20 as stated: batch classification of an empty list of readings returns
\* an empty list, on FaultClassifier.classify_batch (without invoking the
\* pipeline) and on AIService.classify_batch.
C20_AsStated ==
    (out.op = "classify_batch" /\ out.samples = <<>>) =>
        /\ \A pipeline \in StoredPipelines :
              classifier_classify_batch(pipeline, <<>>) =
                  [status |-> "ok", faults |-> <<>>, predict_calls |-> 0]
        /\ out.res.status = "ok"
        /\ out.res.faults = <<>>

\* C20: FaultClassifier.classify_batch returns an empty list for an empty list
\* of readings without invoking the pipeline; AIService.classify_batch returns
\* that empty list when a classifier is cached or an artifact is persisted, and
\* fails with the no-model availability error when neither exists.
C20_EmptyBatch ==
    (out.op = "classify_batch" /\ out.samples = <<>>) =>
        /\ \A pipeline \in StoredPipelines :
              classifier_classify_batch(pipeline, <<>>) =
                  [status |-> "ok", faults |-> <<>>, predict_calls |-> 0]
        /\ IF out.no_model
           THEN out.res = [status |-> "RuntimeError"]
           ELSE out.res = [status |-> "ok", faults |-> <<>>, predict_calls |-> 0]

\* an empty batch on a service that has a model
C20_Witness ==
    /\ out.op = "classify_batch"
    /\ out.samples = <<>>
    /\ ~out.no_model
    /\ classifier # NoModel
    /\ out.res.status = "ok"
    /\ out.res.faults = <<>>
    /\ out.res.predict_calls = 0

-----------------------------------------------------------------------------
(* Specification of the model artifact on disk.  save_model hands the path *)
(* to joblib.dump, which opens it for writing (truncating what is there)    *)
(* and writes the pickle block by block; from_file tests that the path      *)
(* exists and hands it to joblib.load, which reads block by block.  Here    *)
(* artifact is the file (NoModel when there is none, else the blocks it     *)
(* holds), classifier the cache of the loading service, and out holds the   *)
(* position of the saving call and of the loading call.                     *)

MaxBlocks == 2

\* the bytes of the serialized pipeline, as MaxBlocks blocks
pickle_blocks(pipeline) == [i \in 1..MaxBlocks |-> [of |-> pipeline, block |-> i]]

\* joblib.load on what was read: the pipeline if the blocks are one complete
\* pickle, otherwise the unpickling fails
unpickle(blocks) ==
    IF \E pipeline \in StoredPipelines : blocks = pickle_blocks(pipeline)
    THEN [status |-> "ok",
          pipeline |-> CHOOSE pipeline \in StoredPipelines : blocks = pickle_blocks(pipeline)]
    ELSE [status |-> "UnpicklingError"]

\* a file that exists, with the blocks written to it so far
File(blocks) == [blocks |-> blocks]

Idle == [pc |-> "idle"]

InitArtifact ==
    /\ classifier = NoModel
    /\ n_folds = DEFAULT_N_FOLDS
    /\ artifact \in {NoModel} \cup {File(pickle_blocks(pipeline)) : pipeline \in StoredPipelines}
    /\ out = [op |-> "artifact", save |-> Idle, load |-> Idle]

\* save_model: dest.parent.mkdir, then joblib.dump opens dest for writing
SaveOpen ==
    /\ out.save.pc = "idle"
    /\ \E pipeline \in StoredPipelines :
          out' = [out EXCEPT !.save = [pc |-> "writing", pipeline |-> pipeline]]
    /\ artifact' = File(<<>>)
    /\ UNCHANGED <<classifier, n_folds>>

\* joblib.dump writes the next block
SaveWrite ==
    /\ out.save.pc = "writing"
    /\ Len(artifact.blocks) < MaxBlocks
    /\ artifact' = File(Append(artifact.blocks,
                               pickle_blocks(out.save.pipeline)[Len(artifact.blocks) + 1]))
    /\ UNCHANGED <<classifier, n_folds, out>>

\* joblib.dump closes the file and save_model returns
SaveReturn ==
    /\ out.save.pc = "writing"
    /\ Len(artifact.blocks) = MaxBlocks
    /\ out' = [out EXCEPT !.save = Idle]
    /\ UNCHANGED <<classifier, artifact, n_folds>>

\* from_file: p.exists()
LoadExists ==
    /\ out.load.pc = "idle"
    /\ out' = [out EXCEPT !.load =
                  IF artifact = NoModel
                  THEN [pc |-> "done", read |-> <<>>, res |-> [status |-> "FileNotFoundError"]]
                  ELSE [pc |-> "reading", read |-> <<>>]]
    /\ UNCHANGED <<classifier, artifact, n_folds>>

\* joblib.load reads the next block, or reaches the end of the file
LoadRead ==
    /\ out.load.pc = "reading"
    /\ LET read == out.load.read
       IN IF Len(read) < MaxBlocks /\ Len(artifact.blocks) > Len(read)
          THEN out' = [out EXCEPT !.load.read = Append(read, artifact.blocks[Len(read) + 1])]
          ELSE out' = [out EXCEPT !.load = [pc |-> "done", read |-> read,
                                            res |-> unpickle(read)]]
    /\ UNCHANGED <<classifier, artifact, n_folds>>

\* from_file returns or raises; load_model keeps the classifier it returned
LoadReturn ==
    /\ out.load.pc = "done"
    /\ classifier' = IF out.load.res.status = "ok" THEN out.load.res.pipeline ELSE classifier
    /\ out' = [out EXCEPT !.load = Idle]
    /\ UNCHANGED <<artifact, n_folds>>

NextArtifact ==
    SaveOpen \/ SaveWrite \/ SaveReturn \/ LoadExists \/ LoadRead \/ LoadReturn

SpecArtifact == InitArtifact /\ [][NextArtifact]_vars

\* C21: a load that interleaves with a save to the same artifact path observes
\* either a complete artifact (the previous one or the new one) or a not-found
\* error, never a partially written artifact.
C21_LoadSeesCompleteArtifact ==
    (out.op = "artifact" /\ out.load.pc = "done") =>
        \/ out.load.res.status = "FileNotFoundError"
        \/ /\ out.load.res.status = "ok"
           /\ \E pipeline \in StoredPipelines : out.load.read = pickle_blocks(pipeline)

-----------------------------------------------------------------------------
(* Specification of the state the classifiers share.  The tables of the    *)
(* classifier modules are module-level objects; dornenburg.diagnose puts    *)
(* the _L1_LIMITS dict itself, not a copy, into the details of the result   *)
(* it returns for a reading below the limits.  A reference to a             *)
(* module-level object is Ref(name); out.module holds the contents of       *)
(* _L1_LIMITS, out.result the result the caller was handed last.            *)

MaxWrites == 2

Ref(name) == [ref |-> name]

\* the details of a result hold a reference to a module-level object
Aliases(result) ==
    /\ "l1_limits" \in DOMAIN result.details
    /\ result.details.l1_limits = Ref("_L1_LIMITS")

\* _exceeds_l1 reads the module-level dict at every call
exceeds_l1_reading(limits, reading) ==
    \E gas \in DOMAIN limits : reading[gas] > limits[gas]

dornenburg_diagnose_reading(limits, reading) ==
    IF ~exceeds_l1_reading(limits, reading)
    THEN MethodResult("Dornenburg", "N",
                      [applicable |-> FALSE, l1_limits |-> Ref("_L1_LIMITS")])
    ELSE MethodResult("Dornenburg",
                      dornenburg_classify(ratio_ch4_h2(reading),
                                          ratio_c2h2_c2h4(reading),
                                          ratio_c2h2_ch4(reading),
                                          ratio_c2h6_c2h2(reading)),
                      [applicable |-> TRUE])

\* the result as its holder reads it: references followed
Deref(result, limits) ==
    IF "l1_limits" \in DOMAIN result.details
    THEN [result EXCEPT !.details.l1_limits = limits]
    ELSE result

\* values a holder of a result may store in a dict it was handed
WrittenLimits == {0, 1000}

NoResultYet == MethodResult("", "N", [applicable |-> FALSE])

InitModule ==
    /\ classifier = NoModel
    /\ artifact = NoModel
    /\ n_folds = DEFAULT_N_FOLDS
    /\ out = [op |-> "module", module |-> L1_LIMITS, writes |-> 0,
              reading |-> reading_zero, result |-> NoResultYet]

\* dornenburg.diagnose(reading)
DornenburgDiagnose ==
    /\ out.op \in {"module", "dornenburg", "write"}
    /\ \E sample \in SampleIds :
          out' = [out EXCEPT !.op = "dornenburg",
                             !.reading = gas_reading(sample),
                             !.result = dornenburg_diagnose_reading(out.module,
                                                                    gas_reading(sample))]
    /\ UNCHANGED <<classifier, artifact, n_folds>>

\* the holder of a result stores a value in a dict its details refer to:
\* MethodResult is frozen, its details dict and what it holds are not
WriteDetails ==
    /\ out.op \in {"dornenburg", "write"}
    /\ out.writes < MaxWrites
    /\ Aliases(out.result)
    /\ \E gas \in DOMAIN out.module, value \in WrittenLimits :
          out' = [out EXCEPT !.op = "write",
                             !.module[gas] = value,
                             !.writes = out.writes + 1]
    /\ UNCHANGED <<classifier, artifact, n_folds>>

NextModule == DornenburgDiagnose \/ WriteDetails

SpecModule == InitModule /\ [][NextModule]_vars

\* C22: classifier invocations share no mutable state: the result of a
\* classifier for a reading is the same whatever calls preceded it, and no
\* returned result, its details map included, aliases state that a later
\* invocation reads.
C22_NoSharedMutableState ==
    out.op = "dornenburg" =>
        /\ Deref(out.result, out.module) = dornenburg_diagnose(out.reading)
        /\ ~Aliases(out.result)

\* the first half of C22 alone: the result does not depend on earlier calls
C22_SameResultWhateverPreceded ==
    out.op = "dornenburg" =>
        Deref(out.result, out.module) = dornenburg_diagnose(out.reading)

-----------------------------------------------------------------------------
(* Evaluation results                                                      *)

\* C23: an evaluation result has per-class metrics for exactly the distinct
\* labels of the evaluated label vector, in ascending ordinal order; no absent
\* class appears, label_names lists the same classes, the confusion matrix is
\* square with that dimension, and the per-class supports sum to the sample
\* count.
C23_ClassesPresentOnly ==
    (out.op \in {"train_all", "evaluate"} /\ out.eval.status = "ok") =>
        LET e == out.eval
            present == {out.y[n] : n \in 1..Len(out.y)}
            k == Cardinality(present)
        IN /\ Len(e.class_metrics) = k
           /\ {Ordinal(e.class_metrics[i].fault_type) : i \in 1..k} = present
           /\ \A i \in 1..(k - 1) :
                 Ordinal(e.class_metrics[i].fault_type)
                     < Ordinal(e.class_metrics[i + 1].fault_type)
           /\ e.label_names = [i \in 1..k |-> e.class_metrics[i].fault_type]
           /\ DOMAIN e.confusion_matrix = 1..k
           /\ \A i \in 1..k : DOMAIN e.confusion_matrix[i] = 1..k
           /\ \A i \in 1..k : e.class_metrics[i].support > 0
           /\ SumOver([i \in 1..k |-> e.class_metrics[i].support], 1..k) = Len(out.y)
           /\ e.n_samples = Len(out.y)

\* two of the three label classes are present, and not neighbouring ones
C23_Witness ==
    /\ out.op = "evaluate"
    /\ out.eval.status = "ok"
    /\ {out.y[n] : n \in 1..Len(out.y)} = {0, 6}
    /\ Len(out.eval.class_metrics) = 2
    /\ out.eval.class_metrics[1].support = 1
    /\ out.eval.class_metrics[2].support = 3
    /\ out.eval.confusion_matrix[2][1] = 3

-----------------------------------------------------------------------------
(* The high-energy discharge scenario                                      *)

DischargeFamily == {"D1", "D2"}

\* C24: the reading h2=1500, ch4=200, c2h6=60, c2h4=400, c2h2=500 (co=300,
\* co2=1200, o2=17000, n2=48000) yields a Dornenburg result with applicable
\* true, at least 3 of the 6 classifiers voting D1 or D2, and a consensus
\* fault that is D1 or D2.
C24_DischargeScenario ==
    (/\ out.op = "diagnose"
     /\ gas_reading(out.sample) = GasReading(1500, 200, 60, 400, 500, 300, 1200, 17000, 48000))
    => LET d == out.result.normative
       IN /\ ResultOf(d, "Dornenburg").details.applicable
          /\ Cardinality({i \in 1..Len(d.results) :
                             d.results[i].fault_type \in DischargeFamily}) >= 3
          /\ d.consensus_fault \in DischargeFamily

\* the scenario reading has been diagnosed: four classifiers say D2, one D1
C24_Witness ==
    /\ out.op = "diagnose"
    /\ gas_reading(out.sample) = reading_d2
    /\ reading_d2.h2 = 1500 /\ reading_d2.c2h2 = 500
    /\ out.result.normative.consensus_fault = "D2"
    /\ out.result.normative.vote_counts = [D2 |-> 4, DT |-> 1, D1 |-> 1]
    /\ ResultOf(out.result.normative, "Dornenburg").fault_type = "D2"

-----------------------------------------------------------------------------
(* Specification of the classifier cache of one AI service whose artifact  *)
(* path is shared: besides the calls on the service itself, the artifact   *)
(* may be removed, or rewritten by a train call of another service         *)
(* instance on the same directory.                                         *)

\* AIService.load_model()
LoadModel ==
    LET r == ai_load_model(classifier, artifact)
    IN /\ classifier' = r.cache
       /\ out' = [op |-> "load_model", res |-> r.res, no_model |-> NoModelAtAll]
       /\ UNCHANGED <<artifact, n_folds>>

\* AIService.has_model()
HasModel ==
    /\ out' = [op |-> "has_model", value |-> has_model(classifier, artifact),
               cached |-> classifier # NoModel]
    /\ UNCHANGED <<classifier, artifact, n_folds>>

\* the artifact file is deleted
ArtifactRemoved ==
    /\ artifact # NoModel
    /\ artifact' = NoModel
    /\ out' = [op |-> "artifact_removed"]
    /\ UNCHANGED <<classifier, n_folds>>

\* another service instance saves its best model to the same path
ArtifactRewritten ==
    /\ \E pipeline \in StoredPipelines : artifact' = pipeline
    /\ out' = [op |-> "artifact_rewritten"]
    /\ UNCHANGED <<classifier, n_folds>>

NextCache ==
    \/ Train
    \/ LoadModel
    \/ Classify
    \/ ClassifyWithProba
    \/ ClassifyBatch
    \/ HasModel
    \/ ArtifactRemoved
    \/ ArtifactRewritten

SpecCache == Init /\ [][NextCache]_vars

\* C25: once the service holds a cached classifier, every later classify,
\* classify_with_proba and classify_batch call uses it without reading the
\* artifact again, until a successful train or load_model replaces it;
\* has_model() is true in every such state, whatever happens to the artifact.
C25_CachedClassifierUsed ==
    /\ [](classifier # NoModel => has_model(classifier, artifact))
    /\ []((out.op = "has_model" /\ out.cached) => out.value)
    /\ [][classifier # NoModel =>
            /\ out'.op = "classify" =>
                  /\ classifier' = classifier
                  /\ out'.res = classifier_classify(classifier, out'.sample)
            /\ out'.op = "classify_with_proba" =>
                  /\ classifier' = classifier
                  /\ out'.res = classifier_classify_with_probabilities(classifier, out'.sample)
            /\ out'.op = "classify_batch" =>
                  /\ classifier' = classifier
                  /\ out'.res = classifier_classify_batch(classifier, out'.samples)
            /\ classifier' # classifier =>
                  \/ out'.op = "train" /\ out'.status = "ok"
                  \/ out'.op = "load_model" /\ out'.res.status = "ok"]_vars

\* a batch was classified by the cached classifier while the artifact on disk
\* holds another pipeline, which would have answered differently
C25_Witness ==
    /\ out.op = "classify_batch"
    /\ out.res.status = "ok"
    /\ classifier # NoModel
    /\ artifact # NoModel
    /\ artifact # classifier
    /\ out.res.faults # <<>>
    /\ out.res.faults = classifier_classify_batch(classifier, out.samples).faults
    /\ out.res.faults # classifier_classify_batch(artifact, out.samples).faults

\* the artifact is gone and the service still classifies
C25_WitnessRemoved ==
    /\ out.op = "classify"
    /\ out.res.status = "ok"
    /\ artifact = NoModel
    /\ classifier \in StoredPipelines

\* C26: train changes the persisted artifact only when training succeeds with
\* saving enabled: a train call that fails leaves the artifact and the cached
\* classifier as they were, and a successful train with saving disabled
\* replaces the cached classifier and leaves the artifact untouched.
C26_TrainFrame ==
    [][out'.op = "train" =>
          /\ out'.status # "ok" => (artifact' = artifact /\ classifier' = classifier)
          /\ (out'.status = "ok" /\ ~out'.save) => artifact' = artifact
          /\ out'.status = "ok" => classifier' # NoModel
          /\ artifact' # artifact =>
                (out'.status = "ok" /\ out'.save /\ artifact' = classifier')]_vars

\* training succeeded without saving: the cache holds the new pipeline, the
\* artifact still holds another one
C26_Witness ==
    /\ out.op = "train"
    /\ out.status = "ok"
    /\ ~out.save
    /\ classifier # NoModel
    /\ artifact \in StoredPipelines
    /\ artifact # classifier

\* training failed on a service that has both a cache and an artifact
C26_WitnessFailed ==
    /\ out.op = "train"
    /\ out.status # "ok"
    /\ out.save
    /\ classifier # NoModel
    /\ artifact # NoModel

-----------------------------------------------------------------------------
(* Populated folds                                                         *)

\* C27: after fold adaptation every stratified fold is populated for every
\* class: for any label vector accepted by the trainer or the evaluator, the
\* effective fold count never exceeds the sample count of the smallest
\* present class.
C27_FoldsPopulated ==
    out.op \in {"train_all", "evaluate"} =>
        /\ out.train.status = "ok" =>
              out.train.effective_folds <= SmallestClassCount(out.y)
        /\ out.eval.status = "ok" =>
              out.eval.effective_folds <= SmallestClassCount(out.y)

-----------------------------------------------------------------------------
(* Specification of the SQLite store behind the transformer and sample     *)
(* services.  The store is the two tables and their AUTOINCREMENT          *)
(* counters; it is kept in out.store, next to the last call and what it    *)
(* returned or raised.  Names and sample codes are character sequences.    *)

MaxRows == 2

\* str.strip(): leading and trailing whitespace removed
RECURSIVE lstrip(_)
lstrip(s) == IF s # <<>> /\ Head(s) = " " THEN lstrip(Tail(s)) ELSE s

RECURSIVE rstrip(_)
rstrip(s) ==
    IF s # <<>> /\ s[Len(s)] = " " THEN rstrip(SubSeq(s, 1, Len(s) - 1)) ELSE s

strip(s) == rstrip(lstrip(s))

\* Transformer(name=..., id=...): __post_init__ strips the name and rejects
\* an empty one
new_Transformer(name, id) ==
    IF strip(name) = <<>> THEN [status |-> "ValueError"]
    ELSE [status |-> "ok", name |-> strip(name), id |-> id]

\* Sample(sample_code=..., transformer_id=..., id=...): __post_init__ strips
\* the code, rejects an empty one and a transformer id below 1
new_Sample(sample_code, transformer_id, id) ==
    IF strip(sample_code) = <<>> \/ transformer_id < 1 THEN [status |-> "ValueError"]
    ELSE [status |-> "ok", sample_code |-> strip(sample_code),
          transformer_id |-> transformer_id, id |-> id]

\* initialize_database on a new file: both tables empty
EmptyStore == [transformers |-> {}, samples |-> {}, t_seq |-> 0, s_seq |-> 0]

Outcome(status, store) == [res |-> [status |-> status], store |-> store]

\* SQLiteTransformerRepository.create: INSERT, name UNIQUE
transformer_create(store, transformer) ==
    IF \E row \in store.transformers : row.name = transformer.name
    THEN Outcome("DuplicateTransformerError", store)
    ELSE [res |-> [status |-> "ok", id |-> store.t_seq + 1],
          store |-> [store EXCEPT
                        !.transformers = @ \cup {[id |-> store.t_seq + 1,
                                                  name |-> transformer.name]},
                        !.t_seq = @ + 1]]

\* SQLiteTransformerRepository.update: UPDATE ... WHERE id = ?, then rowcount
transformer_update(store, transformer) ==
    IF ~\E row \in store.transformers : row.id = transformer.id
    THEN Outcome("TransformerNotFoundError", store)
    ELSE IF \E row \in store.transformers :
                row.id # transformer.id /\ row.name = transformer.name
    THEN Outcome("DuplicateTransformerError", store)
    ELSE [res |-> [status |-> "ok", id |-> transformer.id],
          store |-> [store EXCEPT
                        !.transformers = {IF row.id = transformer.id
                                          THEN [row EXCEPT !.name = transformer.name]
                                          ELSE row : row \in @}]]

\* variant: the samples of a deleted transformer stay in their table
transformer_delete_no_cascade(store, transformer_id) ==
    IF ~\E row \in store.transformers : row.id = transformer_id
    THEN Outcome("TransformerNotFoundError", store)
    ELSE [res |-> [status |-> "ok"],
          store |-> [store EXCEPT
                        !.transformers = {row \in @ : row.id # transformer_id}]]

\* SQLiteTransformerRepository.delete: DELETE, ON DELETE CASCADE on samples
transformer_delete(store, transformer_id) ==
    IF ~\E row \in store.transformers : row.id = transformer_id
    THEN Outcome("TransformerNotFoundError", store)
    ELSE [res |-> [status |-> "ok"],
          store |-> [store EXCEPT
                        !.transformers = {row \in @ : row.id # transformer_id},
                        !.samples = {row \in @ : row.transformer_id # transformer_id}]]

\* variant: the UNIQUE constraint on sample_code is not there
sample_create_no_unique(store, sample) ==
    IF ~\E row \in store.transformers : row.id = sample.transformer_id
    THEN Outcome("IntegrityError", store)
    ELSE [res |-> [status |-> "ok", id |-> store.s_seq + 1],
          store |-> [store EXCEPT
                        !.samples = @ \cup {[id |-> store.s_seq + 1,
                                             sample_code |-> sample.sample_code,
                                             transformer_id |-> sample.transformer_id]},
                        !.s_seq = @ + 1]]

\* SQLiteSampleRepository.create: INSERT; SQLite reports the UNIQUE violation
\* on sample_code before the FOREIGN KEY violation, which is re-raised as it is
sample_create(store, sample) ==
    IF \E row \in store.samples : row.sample_code = sample.sample_code
    THEN Outcome("DuplicateSampleCodeError", store)
    ELSE IF ~\E row \in store.transformers : row.id = sample.transformer_id
    THEN Outcome("IntegrityError", store)
    ELSE [res |-> [status |-> "ok", id |-> store.s_seq + 1],
          store |-> [store EXCEPT
                        !.samples = @ \cup {[id |-> store.s_seq + 1,
                                             sample_code |-> sample.sample_code,
                                             transformer_id |-> sample.transformer_id]},
                        !.s_seq = @ + 1]]

\* SQLiteSampleRepository.update: UPDATE ... WHERE id = ?, then rowcount
sample_update(store, sample) ==
    IF ~\E row \in store.samples : row.id = sample.id
    THEN Outcome("SampleNotFoundError", store)
    ELSE IF \E row \in store.samples :
                row.id # sample.id /\ row.sample_code = sample.sample_code
    THEN Outcome("DuplicateSampleCodeError", store)
    ELSE IF ~\E row \in store.transformers : row.id = sample.transformer_id
    THEN Outcome("IntegrityError", store)
    ELSE [res |-> [status |-> "ok", id |-> sample.id],
          store |-> [store EXCEPT
                        !.samples = {IF row.id = sample.id
                                     THEN [id |-> sample.id,
                                           sample_code |-> sample.sample_code,
                                           transformer_id |-> sample.transformer_id]
                                     ELSE row : row \in @}]]

\* SQLiteSampleRepository.delete
sample_delete(store, sample_id) ==
    IF ~\E row \in store.samples : row.id = sample_id
    THEN Outcome("SampleNotFoundError", store)
    ELSE [res |-> [status |-> "ok"],
          store |-> [store EXCEPT !.samples = {row \in @ : row.id # sample_id}]]

\* TransformerService.register_transformer / update_transformer
register_transformer(store, name) ==
    LET transformer == new_Transformer(name, 0)
    IN IF transformer.status # "ok" THEN Outcome(transformer.status, store)
       ELSE transformer_create(store, transformer)

update_transformer(store, id, name) ==
    LET transformer == new_Transformer(name, id)
    IN IF transformer.status # "ok" THEN Outcome(transformer.status, store)
       ELSE transformer_update(store, transformer)

\* SampleService._validate_transformer_exists
validate_transformer_exists(store, transformer_id) ==
    \E row \in store.transformers : row.id = transformer_id

\* SampleService.register_sample: the transformer is looked up, the gas
\* reading and the entity are built, the repository inserts
register_sample(store, sample_code, transformer_id, gas_ok) ==
    IF ~validate_transformer_exists(store, transformer_id)
    THEN Outcome("TransformerNotFoundError", store)
    ELSE IF ~gas_ok THEN Outcome("InvalidGasValueError", store)
    ELSE LET sample == new_Sample(sample_code, transformer_id, 0)
         IN IF sample.status # "ok" THEN Outcome(sample.status, store)
            ELSE sample_create(store, sample)

\* SampleService.update_sample
update_sample(store, id, sample_code, transformer_id, gas_ok) ==
    IF ~validate_transformer_exists(store, transformer_id)
    THEN Outcome("TransformerNotFoundError", store)
    ELSE IF ~gas_ok THEN Outcome("InvalidGasValueError", store)
    ELSE LET sample == new_Sample(sample_code, transformer_id, id)
         IN IF sample.status # "ok" THEN Outcome(sample.status, store)
            ELSE sample_update(store, sample)

\* what is typed as a name or a sample code
RawTexts == {<<"a">>, <<"b">>, <<"a", " ">>, <<" ">>}

\* ids asked for: the ones handed out so far and one that never was
AskedIds == 1..(MaxRows + 1)

InitStore ==
    /\ classifier = NoModel
    /\ artifact = NoModel
    /\ n_folds = DEFAULT_N_FOLDS
    /\ out = [op |-> "initialize_database", res |-> [status |-> "ok"], store |-> EmptyStore]

Called(op, args, outcome) ==
    /\ out' = [op |-> op, args |-> args, res |-> outcome.res, store |-> outcome.store]
    /\ UNCHANGED <<classifier, artifact, n_folds>>

RegisterTransformer ==
    /\ out.store.t_seq < MaxRows
    /\ \E name \in RawTexts :
          Called("register_transformer", [name |-> name],
                 register_transformer(out.store, name))

UpdateTransformer ==
    \E id \in AskedIds, name \in RawTexts :
        Called("update_transformer", [id |-> id, name |-> name],
               update_transformer(out.store, id, name))

RemoveTransformer ==
    \E id \in AskedIds :
        Called("remove_transformer", [id |-> id], transformer_delete(out.store, id))

RegisterSample ==
    /\ out.store.s_seq < MaxRows
    /\ \E sample_code \in RawTexts, transformer_id \in AskedIds, gas_ok \in BOOLEAN :
          Called("register_sample",
                 [sample_code |-> sample_code, transformer_id |-> transformer_id,
                  gas_ok |-> gas_ok],
                 register_sample(out.store, sample_code, transformer_id, gas_ok))

UpdateSample ==
    \E id \in AskedIds, sample_code \in RawTexts, transformer_id \in AskedIds,
       gas_ok \in BOOLEAN :
        Called("update_sample",
               [id |-> id, sample_code |-> sample_code,
                transformer_id |-> transformer_id, gas_ok |-> gas_ok],
               update_sample(out.store, id, sample_code, transformer_id, gas_ok))

RemoveSample ==
    \E id \in AskedIds :
        Called("remove_sample", [id |-> id], sample_delete(out.store, id))

\* the sample repository called without the service in front of it
SampleRepositoryCreate ==
    /\ out.store.s_seq < MaxRows
    /\ \E sample_code \in RawTexts, transformer_id \in AskedIds :
          LET sample == new_Sample(sample_code, transformer_id, 0)
          IN /\ sample.status = "ok"
             /\ Called("sample_repository_create",
                       [sample_code |-> sample_code, transformer_id |-> transformer_id],
                       sample_create(out.store, sample))

SampleRepositoryUpdate ==
    \E id \in AskedIds, sample_code \in RawTexts, transformer_id \in AskedIds :
        LET sample == new_Sample(sample_code, transformer_id, id)
        IN /\ sample.status = "ok"
           /\ Called("sample_repository_update",
                     [id |-> id, sample_code |-> sample_code,
                      transformer_id |-> transformer_id],
                     sample_update(out.store, sample))

NextStore ==
    \/ RegisterTransformer
    \/ UpdateTransformer
    \/ RemoveTransformer
    \/ RegisterSample
    \/ UpdateSample
    \/ RemoveSample

SpecStore == InitStore /\ [][NextStore]_vars

\* The repositories called directly.  The transformer service methods are the
\* entity constructor followed by the repository call and the remove methods
\* are the repository deletes, so those actions stand for the repository
\* calls; the sample repository is called without the service's lookup.
NextRepository ==
    \/ RegisterTransformer
    \/ UpdateTransformer
    \/ RemoveTransformer
    \/ SampleRepositoryCreate
    \/ SampleRepositoryUpdate
    \/ RemoveSample

SpecRepository == InitStore /\ [][NextRepository]_vars

StoredTransformer(store, id) == \E row \in store.transformers : row.id = id

StoredSample(store, id) == \E row \in store.samples : row.id = id

\* C28: after any sequence of register, update and remove calls every stored
\* sample's transformer_id is the id of a stored transformer; registering or
\* updating a sample for a transformer that is not stored fails with
\* TransformerNotFoundError and stores nothing; removing a transformer
\* removes all of its samples.
C28_ReferentialIntegrity ==
    /\ [](\A sample \in out.store.samples :
             StoredTransformer(out.store, sample.transformer_id))
    /\ [][(/\ out'.op \in {"register_sample", "update_sample"}
           /\ ~StoredTransformer(out.store, out'.args.transformer_id))
          => (/\ out'.res.status = "TransformerNotFoundError"
              /\ out'.store = out.store)]_vars
    /\ [][(/\ out'.op = "remove_transformer"
           /\ StoredTransformer(out.store, out'.args.id))
          => (/\ out'.res.status = "ok"
              /\ ~StoredTransformer(out'.store, out'.args.id)
              /\ out'.store.samples =
                    {row \in out.store.samples : row.transformer_id # out'.args.id}
              /\ out'.store.transformers =
                    {row \in out.store.transformers : row.id # out'.args.id})]_vars

\* a sample is refused for a transformer that is not stored while the store
\* holds a transformer with a sample
C28_Witness ==
    /\ out.op = "register_sample"
    /\ out.res.status = "TransformerNotFoundError"
    /\ out.store.samples # {}

\* a transformer was removed after two samples had been stored and none is left
C28_WitnessCascade ==
    /\ out.op = "remove_transformer"
    /\ out.res.status = "ok"
    /\ out.store.s_seq = 2
    /\ out.store.samples = {}
    /\ out.store.transformers # {}

NameTaken(store, name, own_id) ==
    \E row \in store.transformers : row.id # own_id /\ row.name = strip(name)

CodeTaken(store, sample_code, own_id) ==
    \E row \in store.samples : row.id # own_id /\ row.sample_code = strip(sample_code)

Refused(status) == out'.res.status = status /\ out'.store = out.store

\* C29: after any sequence of repository calls no two stored transformers
\* share a name and no two stored samples share a sample code; a create or
\* update that would introduce a duplicate fails with
\* DuplicateTransformerError / DuplicateSampleCodeError and leaves the store
\* as it was; an update or delete of an id that is not stored fails with
\* TransformerNotFoundError / SampleNotFoundError and changes nothing.
C29_UniqueAndNotFound ==
    /\ [](/\ \A a, b \in out.store.transformers : a.name = b.name => a = b
          /\ \A a, b \in out.store.samples : a.sample_code = b.sample_code => a = b)
    /\ [][(out'.op = "register_transformer" /\ NameTaken(out.store, out'.args.name, 0))
          => Refused("DuplicateTransformerError")]_vars
    /\ [][(/\ out'.op = "update_transformer"
           /\ StoredTransformer(out.store, out'.args.id)
           /\ NameTaken(out.store, out'.args.name, out'.args.id))
          => Refused("DuplicateTransformerError")]_vars
    /\ [][(/\ out'.op = "sample_repository_create"
           /\ CodeTaken(out.store, out'.args.sample_code, 0))
          => Refused("DuplicateSampleCodeError")]_vars
    /\ [][(/\ out'.op = "sample_repository_update"
           /\ StoredSample(out.store, out'.args.id)
           /\ CodeTaken(out.store, out'.args.sample_code, out'.args.id))
          => Refused("DuplicateSampleCodeError")]_vars
    /\ [][(/\ out'.op = "update_transformer"
           /\ strip(out'.args.name) # <<>>
           /\ ~StoredTransformer(out.store, out'.args.id))
          => Refused("TransformerNotFoundError")]_vars
    /\ [][(out'.op = "remove_transformer" /\ ~StoredTransformer(out.store, out'.args.id))
          => Refused("TransformerNotFoundError")]_vars
    /\ [][(/\ out'.op = "sample_repository_update"
           /\ ~StoredSample(out.store, out'.args.id))
          => Refused("SampleNotFoundError")]_vars
    /\ [][(out'.op = "remove_sample" /\ ~StoredSample(out.store, out'.args.id))
          => Refused("SampleNotFoundError")]_vars

\* the sample repository refuses a code that is stored under another id,
\* typed with a trailing blank
C29_Witness ==
    /\ out.op = "sample_repository_create"
    /\ out.res.status = "DuplicateSampleCodeError"
    /\ out.args.sample_code = <<"a", " ">>
    /\ \E row \in out.store.samples : row.sample_code = <<"a">>

\* a sample id that was handed out and deleted again is not found
C29_WitnessNotFound ==
    /\ out.op = "sample_repository_update"
    /\ out.res.status = "SampleNotFoundError"
    /\ out.args.id <= out.store.s_seq
    /\ out.store.samples # {}

\* a transformer is refused the name of another one
C29_WitnessTransformer ==
    /\ out.op = "update_transformer"
    /\ out.res.status = "DuplicateTransformerError"

-----------------------------------------------------------------------------
(* Specification of the bulk import.  A file is a header with the eleven   *)
(* required columns followed by data rows; a row is kept as the cell of    *)
(* its sample_code column, the cell of a gas column and whether the line   *)
(* carries one cell more than the header.  The import runs against the     *)
(* store modelled above.                                                   *)

MaxFileRows == 3

CodeCells == {<<"a">>, <<"b">>, <<" ">>}

GasCells == {"7", "x"}

FileRows == [sample_code : CodeCells, h2 : GasCells, surplus : BOOLEAN]

Files == UNION {[1..n -> FileRows] : n \in 0..MaxFileRows}

Suffixes == {".csv", ".xlsx"}

\* the key csv.DictReader files surplus cells under (restkey)
RestKey == "None"

HeaderColumns == {"sample_code", "extraction_date", "h2"}

\* _read_csv: csv.DictReader keeps the surplus cells of a line under restkey;
\* _read_excel: dict(zip(columns, row)) drops them
read_row(suffix, file_row) ==
    [keys |-> IF suffix = ".csv" /\ file_row.surplus
              THEN HeaderColumns \cup {RestKey} ELSE HeaderColumns,
     sample_code |-> file_row.sample_code,
     h2 |-> file_row.h2]

read_rows(suffix, file) == [k \in 1..Len(file) |-> read_row(suffix, file[k])]

\* _normalize_columns: col.strip() on every key of the first row; the columns
\* of the header are all there
normalize_columns(raw_columns) ==
    IF RestKey \in raw_columns THEN [status |-> "AttributeError"]
    ELSE [status |-> "ok"]

\* _parse_float: float(value), negative values refused
parse_float(cell) ==
    IF cell = "7" THEN [status |-> "ok", value |-> 7] ELSE [status |-> "ValueError"]

\* one turn of the loop of _process_rows: the row is parsed, the DTO built and
\* register_sample called; any exception is caught and counted
process_row(store, row, transformer_id) ==
    IF strip(row.sample_code) = <<>>
    THEN [called |-> FALSE] @@ Outcome("ValueError", store)
    ELSE IF parse_float(row.h2).status # "ok"
    THEN [called |-> FALSE] @@ Outcome("ValueError", store)
    ELSE [called |-> TRUE]
         @@ register_sample(store, strip(row.sample_code), transformer_id, TRUE)

\* the store the import finds: one transformer, no sample yet
StartStore == transformer_create(EmptyStore, new_Transformer(<<"a">>, 0)).store

NoImportResult == [status |-> "none"]

InitImport ==
    /\ classifier = NoModel
    /\ artifact = NoModel
    /\ n_folds = DEFAULT_N_FOLDS
    /\ \E file \in Files, suffix \in Suffixes, transformer_id \in 1..2 :
          out = [op |-> "import", pc |-> "start", file |-> file, suffix |-> suffix,
                 transformer_id |-> transformer_id, store |-> StartStore,
                 rows |-> <<>>, i |-> 0, imported |-> 0, skipped |-> 0,
                 errors |-> <<>>, calls |-> <<>>, result |-> NoImportResult]

\* import_from_file up to the loop: the file is read, an empty one returns at
\* once, the columns are taken from the first row
ImportFromFile ==
    /\ out.op = "import" /\ out.pc = "start"
    /\ LET rows == read_rows(out.suffix, out.file)
       IN out' = IF rows = <<>>
                 THEN [out EXCEPT !.pc = "done",
                                  !.result = [status |-> "ok", total_rows |-> 0,
                                              imported |-> 0, skipped |-> 0,
                                              errors |-> <<>>]]
                 ELSE IF normalize_columns(rows[1].keys).status # "ok"
                 THEN [out EXCEPT !.pc = "done", !.rows = rows,
                                  !.result = normalize_columns(rows[1].keys)]
                 ELSE [out EXCEPT !.pc = "rows", !.rows = rows, !.i = 1]
    /\ UNCHANGED <<classifier, artifact, n_folds>>

ProcessRow ==
    /\ out.op = "import" /\ out.pc = "rows" /\ out.i <= Len(out.rows)
    /\ LET done == process_row(out.store, out.rows[out.i], out.transformer_id)
       IN out' = [out EXCEPT
                    !.i = @ + 1,
                    !.store = done.store,
                    !.calls = IF done.called
                              THEN Append(@, strip(out.rows[out.i].sample_code)) ELSE @,
                    !.imported = IF done.res.status = "ok" THEN @ + 1 ELSE @,
                    !.skipped = IF done.res.status = "ok" THEN @ ELSE @ + 1,
                    !.errors = IF done.res.status = "ok" THEN @
                               ELSE Append(@, [row |-> out.i + 1,
                                               status |-> done.res.status])]
    /\ UNCHANGED <<classifier, artifact, n_folds>>

ImportReturn ==
    /\ out.op = "import" /\ out.pc = "rows" /\ out.i > Len(out.rows)
    /\ out' = [out EXCEPT !.pc = "done",
                          !.result = [status |-> "ok", total_rows |-> Len(out.rows),
                                      imported |-> out.imported,
                                      skipped |-> out.skipped,
                                      errors |-> out.errors]]
    /\ UNCHANGED <<classifier, artifact, n_folds>>

NextImport == ImportFromFile \/ ProcessRow \/ ImportReturn

SpecImport == InitImport /\ [][NextImport]_vars

\* the data rows of the file that parse: a sample code that is not blank and
\* a gas cell that is a number
Parses(file_row) ==
    strip(file_row.sample_code) # <<>> /\ parse_float(file_row.h2).status = "ok"

RECURSIVE ParsedCodes(_)
ParsedCodes(file) ==
    IF file = <<>> THEN <<>>
    ELSE (IF Parses(Head(file)) THEN <<strip(Head(file).sample_code)>> ELSE <<>>)
         \o ParsedCodes(Tail(file))

ImportResultAsStated ==
    /\ out.result.status = "ok"
    /\ out.result.total_rows = Len(out.file)
    /\ out.result.imported + out.result.skipped = out.result.total_rows
    /\ Len(out.result.errors) = out.result.skipped
    /\ out.calls = ParsedCodes(out.file)

\* C30: when the import of a supported file with valid columns has ended, its
\* result satisfies imported + skipped = total_rows and carries one error
\* message per skipped row, and register_sample was called once, in file
\* order, for each row that parsed, whatever rows around it failed.
C30_ImportAccountsForEveryRow ==
    (out.op = "import" /\ out.pc = "done") => ImportResultAsStated

\* the same for the files whose first data row has no cell beyond the header
C30_WhenFirstRowFitsHeader ==
    (/\ out.op = "import" /\ out.pc = "done"
     /\ ~(out.suffix = ".csv" /\ out.file # <<>> /\ out.file[1].surplus))
    => ImportResultAsStated

\* a three-row file is imported whose middle row fails to register
C30_WitnessRowsAfterFailure ==
    /\ out.op = "import" /\ out.pc = "done"
    /\ out.result.status = "ok"
    /\ out.result.total_rows = 3
    /\ out.result.imported = 2
    /\ Len(out.result.errors) = 1
    /\ out.result.errors[1].row = 3
    /\ out.result.errors[1].status = "DuplicateSampleCodeError"

====
